---- MODULE Spec2Model ----
(***************************************************************************)
(* A model of ascii-rs: the ACSV cache codec (src/src/storage.rs), the     *)
(* parallel rasterization pipeline (src/src/ascii.rs) and the cache        *)
(* decision of run_app (src/src/main.rs).                                  *)
(*                                                                         *)
(* The specifications of the module:                                       *)
(*   SpecCodec    save_ascii_frames / load_ascii_frames on byte strings    *)
(*   SpecPipe     process_frames_parallel with workers in any order        *)
(*   SpecApp      consecutive runs of run_app against one cache key        *)
(*   SpecRle      convert_image_to_ascii and reconstruct_frame_string      *)
(*   SpecPlay     Player::new, play() and the exit of main                 *)
(*   SpecPlayLive SpecPlay with every step of the frame loop returning     *)
(*   SpecMetrics  the MetricsMonitor's sampler thread and its reader       *)
(*   SpecTerm     TerminalManager: setup, clear and the diff-based draw     *)
(*   SpecStatus   the status line of one iteration of the frame loop        *)
(***************************************************************************)
EXTENDS Integers, Sequences, FiniteSets, TLC

VARIABLES
    \* SpecCodec: one save or forged artifact, and one load of it
    cframes,    \* the frame sequence handed to save_ascii_frames
    cfile,      \* the cache file
    cmode,      \* "new", "saved", "altered" (one byte changed), "truncated"
                \* or "forged"
    ld,         \* the state of the running load_ascii_frames call
    \* SpecPipe: one call of process_frames_parallel
    pinputs,    \* frame_paths: per path, what the image there rasterizes to
    pwork,      \* per input: "todo", "computed" (result in hand), "locked"
                \* (result in hand, progress bar's lock held) or "done"
    presults,   \* the Vec that par_iter().map().collect() fills
    pprogress,  \* the progress bar's position
    porder,     \* the inputs in the order their closures returned
    pcoll,      \* the collection loop: position, frames, first error, result
    \* SpecApp: consecutive runs of run_app for one video and terminal size
    apc,        \* where run_app is; "idle" between two runs
    run,        \* the locals of the running run_app, and the calls it made
    cache,      \* the file at video_info.ascii_cache_path
    fhist,      \* how that file came to be: origin, frames saved, healed
    \* SpecRle: one image is encoded into runs and the runs are expanded
    rle,        \* the image, the encoder's locals, the frame, the decoder's locals
    \* SpecPlay: one run of the program from Player::new to exit()
    play,       \* the locals of play(), the clock, the terminal, the audio, the exit
    \* SpecMetrics: the MetricsMonitor, the thread of play() and the sampler
    met,        \* the monitor's fields and locks, and where the two threads are
    \* SpecTerm: one TerminalManager and the screen it writes to
    tm,         \* previous_frame, the rows of the screen, the last call and its commands
    \* SpecStatus: the status line composed for one frame
    sb          \* the status text, the terminal width, the composed line

codecVars == <<cframes, cfile, cmode, ld>>

pipeVars == <<pinputs, pwork, presults, pprogress, porder, pcoll>>

appVars == <<apc, run, cache, fhist>>

rleVars == <<rle>>

playVars == <<play>>

metricsVars == <<met>>

termVars == <<tm>>

statusVars == <<sb>>

\* What the actions of one specification leave alone.
exceptCodec == <<pipeVars, appVars, rleVars, playVars, metricsVars, termVars, statusVars>>

exceptPipe == <<codecVars, appVars, rleVars, playVars, metricsVars, termVars, statusVars>>

exceptApp == <<codecVars, pipeVars, rleVars, playVars, metricsVars, termVars, statusVars>>

exceptRle == <<codecVars, pipeVars, appVars, playVars, metricsVars, termVars, statusVars>>

exceptPlay == <<codecVars, pipeVars, appVars, rleVars, metricsVars, termVars, statusVars>>

exceptMetrics == <<codecVars, pipeVars, appVars, rleVars, playVars, termVars, statusVars>>

exceptTerm == <<codecVars, pipeVars, appVars, rleVars, playVars, metricsVars, statusVars>>

exceptStatus == <<codecVars, pipeVars, appVars, rleVars, playVars, metricsVars, termVars>>

vars ==
    <<cframes, cfile, cmode, ld, pinputs, pwork, presults, pprogress, porder, pcoll,
      apc, run, cache, fhist, rle, play, met, tm, sb>>

(***************************************************************************)
(* Bounds of the model.                                                    *)
(***************************************************************************)
\* Longest frame sequence a run produces or a test saves.
MaxFrames == 2
\* Most inputs of one process_frames_parallel call in SpecPipe.
MaxBatch == 3

\* The largest image width and height.
MaxWidth == 2

MaxHeight == 2

\* Most frames a Player is given in SpecPlay.
MaxPlayFrames == 4

\* The longest time, in ticks, that drawing one frame takes.
MaxDelay == 5

\* Clock ticks per second: the resolution of a Duration in SpecPlay.
TicksPerSec == 20

\* The most calls of get_metrics and the most samples of one playback.
MaxReads == 2

MaxSamples == 2

\* The longest content, in characters, that draw() is given in SpecTerm.
MaxContent == 2

\* The widest terminal and the longest status text of SpecStatus.
MaxCols == 8

MaxStatus == 8

(***************************************************************************)
(* Program constants.                                                      *)
(***************************************************************************)
\* config.rs:13  pub const ACSV_VERSION: u8 = 1;
ACSV_VERSION == 1
\* config.rs:14  pub const ACSV_MAGIC: &[u8; 4] = b"ACSV";
ACSV_MAGIC == <<65, 67, 83, 86>>
\* storage.rs:82  let checksum_len = 32;
checksum_len == 32
\* storage.rs:83  4 + 1 + 4: magic, version and frame count
header_len == 9

(***************************************************************************)
(* Results, as Rust's Result<T, AppError>.                                 *)
(***************************************************************************)
NoVal == <<>>

Ok(v) == [ok |-> TRUE, val |-> v, err |-> "none", at |-> "none"]

\* An error carries its AppError variant and the call that produced it.
Err(e, where) == [ok |-> FALSE, val |-> NoVal, err |-> e, at |-> where]

(***************************************************************************)
(* Bytes and strings.  A frame is a Rust String, that is a valid UTF-8     *)
(* byte sequence (storage.rs:10, &[String]).                               *)
(***************************************************************************)
\* The frames the model saves: the empty string, "#" and "#@".
FrameChoices == {<<>>, <<35>>, <<35, 64>>}

\* The values a damaged byte takes: NUL, the version, another version,
\* '#', 'A', a UTF-8 continuation byte and a byte no UTF-8 text holds.
ByteVals == {0, 1, 2, 35, 65, 128, 255}

RECURSIVE SeqsUpTo(_, _)
SeqsUpTo(S, n) ==
    IF n = 0 THEN {<<>>}
    ELSE LET shorter == SeqsUpTo(S, n - 1)
         IN  shorter \cup {Append(s, x) : s \in {t \in shorter : Len(t) = n - 1}, x \in S}

FrameSeqs == SeqsUpTo(FrameChoices, MaxFrames)

RECURSIVE Flatten(_)
Flatten(ss) == IF ss = <<>> THEN <<>> ELSE Head(ss) \o Flatten(Tail(ss))

Take(s, n) == SubSeq(s, 1, n)

Drop(s, n) == SubSeq(s, n + 1, Len(s))

\* u32::to_le_bytes of (n as u32); the four digits drop everything above 2^32.
to_le_bytes(n) ==
    << n % 256, (n \div 256) % 256, (n \div 65536) % 256, (n \div 16777216) % 256 >>

\* Stand-in for the values of u32::from_le_bytes that TLC's integers cannot
\* hold: larger than every buffer of the model, so every bound check against
\* a buffer length gives the answer the exact value gives.
HugeU32 == 1073741824

\* u32::from_le_bytes.
from_le_bytes(b) ==
    IF b[4] >= 64 THEN HugeU32
    ELSE b[1] + 256 * b[2] + 65536 * b[3] + 16777216 * b[4]

\* String::from_utf8: whether the bytes are well-formed UTF-8.
RECURSIVE is_utf8(_)
is_utf8(b) ==
    LET n == Len(b)
        cont(i) == i <= n /\ b[i] >= 128 /\ b[i] <= 191
    IN  IF n = 0 THEN TRUE
        ELSE IF b[1] < 128 THEN is_utf8(Drop(b, 1))
        ELSE IF b[1] >= 194 /\ b[1] <= 223
             THEN cont(2) /\ is_utf8(Drop(b, 2))
        ELSE IF b[1] >= 224 /\ b[1] <= 239
             THEN /\ cont(2) /\ cont(3)
                  /\ (b[1] = 224 => b[2] >= 160)
                  /\ (b[1] = 237 => b[2] <= 159)
                  /\ is_utf8(Drop(b, 3))
        ELSE IF b[1] >= 240 /\ b[1] <= 244
             THEN /\ cont(2) /\ cont(3) /\ cont(4)
                  /\ (b[1] = 240 => b[2] >= 144)
                  /\ (b[1] = 244 => b[2] <= 143)
                  /\ is_utf8(Drop(b, 4))
        ELSE FALSE

(***************************************************************************)
(* Sha256::digest.  The model cannot compute SHA-256; it uses a 32-byte    *)
(* digest with the one property the codec relies on, that different inputs *)
(* give different digests: byte 1 is the length, byte k+1 mixes the input  *)
(* bytes at positions k, k+31, k+62, ... with their positions.  It is      *)
(* injective on inputs of up to 31 bytes and separates any two inputs of   *)
(* equal length that differ in one byte.                                   *)
(***************************************************************************)
RECURSIVE DigestLane(_, _)
DigestLane(d, j) ==
    IF j > Len(d) THEN 0
    ELSE (d[j] + 7 * j + 1 + DigestLane(d, j + 31)) % 256

Sha256(d) ==
    [k \in 1..checksum_len |->
        IF k = 1 THEN Len(d) % 256 ELSE (DigestLane(d, k - 1) + 13 * k) % 256]

(***************************************************************************)
(* The cache file.  zstd is a lossless container: what the encoder was     *)
(* given is what the decoder returns, unless the stored stream is damaged, *)
(* in which case the decoder fails (zok = FALSE) or returns other bytes.   *)
(***************************************************************************)
NoFile == [exists |-> FALSE, zok |-> FALSE, bytes |-> <<>>]

\* zstd::Encoder::new(file, level), write_all, finish: storage.rs:17-19, 60-62.
zstd_encode(b) == [exists |-> TRUE, zok |-> TRUE, bytes |-> b]

(***************************************************************************)
(* save_ascii_frames, storage.rs:10-71.                                    *)
(***************************************************************************)
\* Mutant of encode_frame: the length written big-endian.
encode_frame_be(f) ==
    LET b == to_le_bytes(Len(f)) IN <<b[4], b[3], b[2], b[1]>> \o f

\* storage.rs:37-43: one frame as its u32 length and its bytes.
encode_frame(f) == to_le_bytes(Len(f)) \o f

\* storage.rs:27-45: frames_data.
frames_data(frames) == Flatten([k \in 1..Len(frames) |-> encode_frame(frames[k])])

\* storage.rs:21-25: magic, version and frame count.
acsv_header(magic, version, count) == magic \o <<version>> \o to_le_bytes(count)

\* storage.rs:21-45: data_to_hash.
data_to_hash(frames) ==
    acsv_header(ACSV_MAGIC, ACSV_VERSION, Len(frames)) \o frames_data(frames)

\* storage.rs:47, 60-61: the bytes handed to the encoder.
with_checksum(d) == d \o Sha256(d)

\* The file save_ascii_frames leaves when every write succeeds.
save_ascii_frames(frames) == zstd_encode(with_checksum(data_to_hash(frames)))

(***************************************************************************)
(* load_ascii_frames, storage.rs:73-179, one step per block of the code.   *)
(* ld is the state of one call: the buffers, the cursor, the frames read   *)
(* so far, the result, and the blocks executed so far (seen).              *)
(***************************************************************************)
LdIdle ==
    [stage |-> "idle", full |-> <<>>, data |-> <<>>, stored |-> <<>>,
     offset |-> 0, version |-> 0, frame_count |-> 0, i |-> 0,
     frames |-> <<>>, res |-> Ok(NoVal), seen |-> <<>>]

LdStart == [LdIdle EXCEPT !.stage = "open"]

LdFail(st, e) == [st EXCEPT !.stage = "done", !.res = Err(e, "load")]

LdSaw(st) == [st EXCEPT !.seen = Append(st.seen, st.stage)]

\* storage.rs:77-80: open the file, build the decoder, read to the end.
\* io is what the file system does: "ok", or the call that fails.
load_open(st, file, io) ==
    LET s == LdSaw(st)
    IN  IF io = "open" \/ ~file.exists THEN LdFail(s, "Io")
        ELSE IF io = "decoder" THEN LdFail(s, "Decompression")
        ELSE IF io = "read" \/ ~file.zok THEN LdFail(s, "Io")
        ELSE [s EXCEPT !.stage = "size", !.full = file.bytes]

\* storage.rs:82-88: the file holds at least a header and a checksum.
load_size(st) ==
    LET s == LdSaw(st)
    IN  IF Len(s.full) < header_len + checksum_len THEN LdFail(s, "InvalidAcsv")
        ELSE [s EXCEPT !.stage = "checksum"]

\* Mutant of load_checksum: a mismatch is not an error.
load_checksum_unchecked(st) ==
    LET s == LdSaw(st)
        data_end_index == Len(s.full) - checksum_len
    IN  [s EXCEPT !.stage = "magic", !.data = Take(s.full, data_end_index),
                  !.stored = Drop(s.full, data_end_index)]

\* Mutant of load_checksum: the magic is validated before the checksum.
load_checksum_after_magic(st) ==
    LET s == LdSaw(st)
        data_end_index == Len(s.full) - checksum_len
        data_without_hash == Take(s.full, data_end_index)
        stored_checksum == Drop(s.full, data_end_index)
    IN  IF Take(s.full, 4) # ACSV_MAGIC THEN LdFail(s, "InvalidAcsv")
        ELSE IF stored_checksum # Sha256(data_without_hash) THEN LdFail(s, "AcsvIntegrity")
        ELSE [s EXCEPT !.stage = "magic", !.data = data_without_hash,
                       !.stored = stored_checksum]

\* storage.rs:90-102: split off the stored checksum and compare.
load_checksum(st) ==
    LET s == LdSaw(st)
        data_end_index == Len(s.full) - checksum_len
        data_without_hash == Take(s.full, data_end_index)
        stored_checksum == Drop(s.full, data_end_index)
    IN  IF stored_checksum # Sha256(data_without_hash) THEN LdFail(s, "AcsvIntegrity")
        ELSE [s EXCEPT !.stage = "magic", !.data = data_without_hash,
                       !.stored = stored_checksum]

\* storage.rs:104-108.
load_magic(st) ==
    LET s == LdSaw(st)
    IN  IF SubSeq(s.data, s.offset + 1, s.offset + 4) # ACSV_MAGIC
        THEN LdFail(s, "InvalidAcsv")
        ELSE [s EXCEPT !.stage = "version", !.offset = s.offset + 4]

\* Mutant of load_version: older versions are accepted.
load_version_lenient(st) ==
    LET s == LdSaw(st)
        version == s.data[s.offset + 1]
    IN  IF version > ACSV_VERSION
        THEN [LdFail(s, "UnsupportedAcsvVersion") EXCEPT !.version = version,
                                                         !.offset = s.offset + 1]
        ELSE [s EXCEPT !.stage = "frame_count", !.version = version,
                       !.offset = s.offset + 1]

\* storage.rs:109-113.
load_version(st) ==
    LET s == LdSaw(st)
        version == s.data[s.offset + 1]
    IN  IF version # ACSV_VERSION
        THEN [LdFail(s, "UnsupportedAcsvVersion") EXCEPT !.version = version,
                                                         !.offset = s.offset + 1]
        ELSE [s EXCEPT !.stage = "frame_count", !.version = version,
                       !.offset = s.offset + 1]

\* storage.rs:114-120.
load_frame_count(st) ==
    LET s == LdSaw(st)
    IN  [s EXCEPT !.stage = "frames",
                  !.frame_count = from_le_bytes(SubSeq(s.data, s.offset + 1, s.offset + 4)),
                  !.offset = s.offset + 4]

\* storage.rs:120: Vec::with_capacity(frame_count as usize), before any check
\* of the count against the buffer.  The allocator returns the memory, or it
\* fails and the process aborts (alloc::handle_alloc_error); a request for
\* HugeU32 elements or more (24 GiB and up for String) is answered either way,
\* depending on the machine.
with_capacity(frame_count) ==
    IF frame_count >= HugeU32 THEN {"allocated", "aborted"} ELSE {"allocated"}

\* storage.rs:129-161: one iteration of the frame loop, or its exit.
load_frame(st) ==
    LET s == IF st.i = 0 THEN LdSaw(st) ELSE st
        n == Len(s.data)
        frame_len == from_le_bytes(SubSeq(s.data, s.offset + 1, s.offset + 4))
        start == s.offset + 4
        frame_data == SubSeq(s.data, start + 1, start + frame_len)
    IN  IF s.i >= s.frame_count THEN [s EXCEPT !.stage = "finish"]
        ELSE IF s.offset + 4 > n THEN LdFail(s, "InvalidAcsv")
        ELSE IF start + frame_len > n THEN LdFail([s EXCEPT !.offset = start], "InvalidAcsv")
        ELSE IF ~is_utf8(frame_data)
             THEN LdFail([s EXCEPT !.offset = start + frame_len], "Utf8")
        ELSE [s EXCEPT !.offset = start + frame_len, !.i = s.i + 1,
                       !.frames = Append(s.frames, frame_data)]

\* storage.rs:162-178: trailing data is logged, the frames are returned.
load_finish(st) ==
    LET s == LdSaw(st)
    IN  [s EXCEPT !.stage = "done", !.res = Ok(s.frames)]

\* The block of load_ascii_frames that st.stage names.
load_step(st, file, io) ==
    CASE st.stage = "open" -> load_open(st, file, io)
      [] st.stage = "size" -> load_size(st)
      [] st.stage = "checksum" -> load_checksum(st)
      [] st.stage = "magic" -> load_magic(st)
      [] st.stage = "version" -> load_version(st)
      [] st.stage = "frame_count" -> load_frame_count(st)
      [] st.stage = "frames" -> load_frame(st)
      [] st.stage = "finish" -> load_finish(st)
      [] OTHER -> st

RECURSIVE load_run(_, _, _)
load_run(st, file, io) ==
    IF st.stage = "done" THEN st ELSE load_run(load_step(st, file, io), file, io)

\* load_ascii_frames as one call: its final state, result included.
load_ascii_frames(file, io) == load_run(LdStart, file, io)

(***************************************************************************)
(* process_frames_parallel, ascii.rs:155-230.                              *)
(*                                                                         *)
(* An input is a path and what the image at that path yields when it is    *)
(* opened, resized and converted: a frame, or an image error.              *)
(***************************************************************************)
Undecodable == [decodable |-> FALSE, frame |-> <<>>]

\* What the image files hold.
Images == {[decodable |-> TRUE, frame |-> f] : f \in FrameChoices \ {<<>>}} \cup {Undecodable}

\* frame_paths of n files: path k is frame_00000k.png.
PathsOf(imgs) == [k \in 1..Len(imgs) |-> [path |-> k, img |-> imgs[k]]]

\* ascii.rs:144-153: image::open(path)?, resize_and_center, convert_image_to_ascii.
process_single_frame(inp) ==
    IF ~inp.img.decodable THEN Err("Image", inp.path) ELSE Ok(inp.img.frame)

\* A slot of the result Vec that no closure has filled yet.
Unfilled == [ok |-> FALSE, val |-> NoVal, err |-> "unfilled", at |-> "none"]

\* Mutant of collect_put: results are kept in the order the closures return.
collect_push(results, k, r) ==
    LET free == {j \in 1..Len(results) : results[j] = Unfilled}
        first == CHOOSE j \in free : \A i \in free : j <= i
    IN  [results EXCEPT ![first] = r]

\* ascii.rs:183-197: collect() of an indexed parallel iterator puts the value
\* the closure returned for input k at position k.
collect_put(results, k, r) == [results EXCEPT ![k] = r]

NoError == Err("none", "none")

\* Mutant of keep_first_error: a later error replaces an earlier one.
keep_last_error(first_error, e) == e

\* ascii.rs:213-215: if first_error.is_none() { first_error = Some(e) }.
keep_first_error(first_error, e) == IF first_error = NoError THEN e ELSE first_error

\* Mutant of progress_inc: only a frame advances the bar.
progress_inc_on_ok(pos, result) == IF result.ok THEN pos + 1 ELSE pos

\* ascii.rs:188: pb_guard.inc(1), whatever process_single_frame returned.
progress_inc(pos, result) == pos + 1

PcollIdle ==
    [pc |-> "idle", i |-> 0, frames |-> <<>>, first_error |-> NoError, res |-> Ok(NoVal)]

\* ascii.rs:208-218: one iteration of the loop over results.
collect_step(c, results) ==
    LET result == results[c.i]
    IN  IF result.ok
        THEN [c EXCEPT !.i = c.i + 1, !.frames = Append(c.frames, result.val)]
        ELSE [c EXCEPT !.i = c.i + 1,
                       !.first_error = keep_first_error(c.first_error, result)]

\* ascii.rs:220-229: the first error, or all the frames.
collect_return(c) ==
    IF c.first_error # NoError
    THEN [c EXCEPT !.pc = "done", !.res = c.first_error]
    ELSE [c EXCEPT !.pc = "done", !.res = Ok(c.frames)]

RECURSIVE collect_run(_, _)
collect_run(c, results) ==
    IF c.i > Len(results) THEN collect_return(c)
    ELSE collect_run(collect_step(c, results), results)

\* ascii.rs:155-230 as one call.  C8_OutputOrder and C9_FirstErrorWins show
\* that the order in which the closures return does not change the result.
process_frames_parallel(inputs) ==
    IF inputs = <<>> THEN Ok(<<>>)
    ELSE collect_run([PcollIdle EXCEPT !.pc = "collect", !.i = 1],
                     [k \in 1..Len(inputs) |-> process_single_frame(inputs[k])]).res

PipeIdle ==
    /\ pinputs = <<>>
    /\ pwork = <<>>
    /\ presults = <<>>
    /\ pprogress = 0
    /\ porder = <<>>
    /\ pcoll = PcollIdle


(***************************************************************************)
(* run_app, main.rs:31-245: its locals and the cache file's history.       *)
(***************************************************************************)
\* No result yet.
NoResult == Err("none", "none")

RunIdle ==
    [regen |-> FALSE,        \* args.regenerate
     stop |-> FALSE,         \* global_stop_signal
     path |-> "none",        \* "hit", "load_failed" (main.rs:174) or "miss" (main.rs:192)
     io |-> "none",          \* what the file system did to the load
     load |-> LdIdle,        \* the finished load_ascii_frames call
     loaded |-> "none",      \* the origin of the file when it was loaded
     batch |-> <<>>,         \* frame_paths
     rle |-> <<>>,           \* rle_frames
     cleanup |-> FALSE,      \* cleanup_frames_dir
     calls |-> <<>>,         \* the calls made so far, in order
     result |-> NoResult]    \* what run_app returned

\* origin: "none", "saved", how the file was damaged since it was saved
\* ("torn", "truncated", "altered"), or "foreign"; frames: what the last save
\* was given;
\* healed: the last save was made by a run whose load of a damaged file failed.
FhistNone == [origin |-> "none", frames |-> <<>>, healed |-> FALSE]

Damaged == {"torn", "truncated", "altered"}

AppIdle ==
    /\ apc = "idle"
    /\ run = RunIdle
    /\ cache = NoFile
    /\ fhist = FhistNone

(***************************************************************************)
(* The run-length encoder, ascii.rs:83-142, and its decoder,               *)
(* playback.rs:17-64.  An image is its dimensions and its pixels in row    *)
(* order; a pixel is its [r, g, b].                                        *)
(***************************************************************************)
\* config.rs:5-9: the characters of ASCII_STR, darkest first.
ASCII_CHARS ==
    <<
      32, 46, 58, 44, 59, 39, 95, 34, 94, 60, 62, 45, 33, 126, 61, 41,
      40, 124, 106, 63, 125, 123, 125, 93, 91, 116, 105, 43, 108, 55, 118, 49,
      37, 121, 114, 102, 99, 74, 51, 50, 117, 73, 67, 36, 122, 119, 111, 57,
      54, 115, 103, 110, 97, 84, 53, 113, 112, 107, 121, 86, 79, 76, 52, 48,
      38, 109, 71, 56, 42, 120, 104, 101, 100, 98, 90, 85, 83, 65, 80, 81,
      70, 68, 88, 87, 75, 35, 82, 78, 69, 72, 66, 77, 64
    >>

\* image::imageops::grayscale of an Rgb<u8> pixel: the Rec. 709 luma.
grayscale(rgb) == (2126 * rgb[1] + 7152 * rgb[2] + 722 * rgb[3]) \div 10000

\* ascii.rs:104-111: (intensity * (n - 1) / 255).round(), then the character
\* at that index, the index capped at the last one.
ascii_index(intensity) ==
    IF Len(ASCII_CHARS) > 1
    THEN (2 * intensity * (Len(ASCII_CHARS) - 1) + 255) \div 510
    ELSE 0

Min(a, b) == IF a < b THEN a ELSE b

ascii_char(rgb) ==
    ASCII_CHARS[Min(ascii_index(grayscale(rgb)), Len(ASCII_CHARS) - 1) + 1]

\* The pixel colours of the model: black, white, red.
Colors == {<<0, 0, 0>>, <<255, 255, 255>>, <<255, 0, 0>>}

ImagesOf(w, h) == {[width |-> w, height |-> h, px |-> p] : p \in [1..(w * h) -> Colors]}

RgbImages == UNION {ImagesOf(w, h) : w \in 0..MaxWidth, h \in 0..MaxHeight}

get_pixel(img, x, y) == img.px[y * img.width + x + 1]

RleRun(c, rgb, n) == [char |-> c, color |-> rgb, count |-> n]

\* Mutant of push_pixel: the first pixel of a row starts a run of its own.
push_pixel_row_break(st, c, rgb) ==
    IF /\ st.x # 0
       /\ st.current_run # <<>>
       /\ st.current_run[1].char = c /\ st.current_run[1].color = rgb
    THEN [st EXCEPT !.current_run[1].count = st.current_run[1].count + 1]
    ELSE [st EXCEPT !.runs = st.runs \o st.current_run,
                    !.current_run = <<RleRun(c, rgb, 1)>>]

\* Mutant of push_pixel: a run that ends is not pushed.
push_pixel_forget(st, c, rgb) ==
    IF st.current_run # <<>> /\ st.current_run[1].char = c /\ st.current_run[1].color = rgb
    THEN [st EXCEPT !.current_run[1].count = st.current_run[1].count + 1]
    ELSE [st EXCEPT !.current_run = <<RleRun(c, rgb, 1)>>]

\* Mutant of push_pixel: every pixel starts a run of its own.
push_pixel_no_merge(st, c, rgb) ==
    [st EXCEPT !.runs = st.runs \o st.current_run,
               !.current_run = <<RleRun(c, rgb, 1)>>]

\* ascii.rs:114-133: the pixel extends the current run when its character and
\* colour are the run's; otherwise the current run, if any, is pushed and a
\* run of one starts.  current_run is an Option: <<>> or <<run>>.
push_pixel(st, c, rgb) ==
    IF st.current_run # <<>> /\ st.current_run[1].char = c /\ st.current_run[1].color = rgb
    THEN [st EXCEPT !.current_run[1].count = st.current_run[1].count + 1]
    ELSE [st EXCEPT !.runs = st.runs \o st.current_run,
                    !.current_run = <<RleRun(c, rgb, 1)>>]

\* What reconstruct_frame_string writes: "\x1b[38;2;r;g;bm", "\x1b[0m", one
\* character or "\n".
Sgr(rgb) == [t |-> "sgr", v |-> rgb]

Reset == [t |-> "reset", v |-> <<>>]

Char(c) == [t |-> "char", v |-> <<c>>]

Newline == [t |-> "nl", v |-> <<>>]

\* playback.rs:42-52: the count characters of a run; at the end of a row the
\* colour is reset, a newline written and current_color forgotten.
RECURSIVE push_cells(_, _, _, _)
push_cells(st, c, n, width) ==
    IF n = 0 THEN st
    ELSE LET s1 == [st EXCEPT !.buffer = Append(st.buffer, Char(c)),
                              !.current_col = st.current_col + 1]
             s2 == IF s1.current_col >= width
                   THEN [s1 EXCEPT !.buffer = s1.buffer \o <<Reset, Newline>>,
                                   !.current_col = 0,
                                   !.current_color = <<>>]
                   ELSE s1
         IN  push_cells(s2, c, n - 1, width)

\* playback.rs:31-40: the colour sequence is written when the run's colour is
\* not the current one.
push_color(st, rgb) ==
    IF st.current_color # <<rgb>>
    THEN [st EXCEPT !.buffer = st.buffer
                        \o (IF st.current_color # <<>> THEN <<Reset>> ELSE <<>>)
                        \o <<Sgr(rgb)>>,
                    !.current_color = <<rgb>>]
    ELSE st

\* playback.rs:30-53: one iteration of the loop over the runs.
expand_run(st, r, width) == push_cells(push_color(st, r.color), r.char, r.count, width)

\* What a terminal shows for the written sequence: the rows of cells, each
\* cell its character and the colour in force when it was written (<<>> is
\* the terminal's default colour).
RECURSIVE Shown(_, _, _, _, _)
Shown(buffer, i, color, rows, fresh) ==
    IF i > Len(buffer) THEN rows
    ELSE LET tok == buffer[i]
         IN  IF tok.t = "sgr" THEN Shown(buffer, i + 1, tok.v, rows, fresh)
             ELSE IF tok.t = "reset" THEN Shown(buffer, i + 1, <<>>, rows, fresh)
             ELSE IF tok.t = "nl"
                  THEN Shown(buffer, i + 1, color,
                             IF fresh THEN Append(rows, <<>>) ELSE rows, TRUE)
             ELSE LET cell == [char |-> tok.v[1], color |-> color]
                  IN  IF fresh \/ rows = <<>>
                      THEN Shown(buffer, i + 1, color, Append(rows, <<cell>>), FALSE)
                      ELSE Shown(buffer, i + 1, color,
                                 [rows EXCEPT ![Len(rows)] = Append(rows[Len(rows)], cell)],
                                 FALSE)

\* The grid the encoder was given: per row, the cells' characters and colours.
Grid(img) ==
    [y \in 1..img.height |->
        [x \in 1..img.width |->
            LET rgb == get_pixel(img, x - 1, y - 1)
            IN  [char |-> ascii_char(rgb), color |-> rgb]]]

\* config.rs:11, CHAR_ASPECT_RATIO: a character cell is twice as high as wide.
CHAR_ASPECT_RATIO == 2

\* (a / b).round() for a >= 0 and b > 0: halves round away from zero.
RoundDiv(a, b) == (2 * a + b) \div (2 * b)

Max(a, b) == IF a > b THEN a ELSE b

\* The decoded images handed to resize_and_center: width x height pixels of
\* one colour.
SourceImages ==
    {[width |-> w, height |-> h, rgb |-> c] :
        w \in 0..MaxWidth, h \in 0..MaxHeight, c \in Colors}

\* Mutant of resize_and_center: a terminal or an image without cells gives a
\* canvas without pixels.
resize_and_center_empty(img, terminal_cols, terminal_lines) ==
    LET term_width == terminal_cols
        term_height == Max(terminal_lines - 1, 0)
    IN  IF term_width = 0 \/ term_height = 0 \/ img.width = 0 \/ img.height = 0
        THEN [width |-> 0, height |-> 0, px |-> <<>>]
        ELSE [width |-> term_width, height |-> term_height,
              px |-> [i \in 1..(term_width * term_height) |-> img.rgb]]

\* ascii.rs:24-81.  resize_exact of an image of one colour is the image of
\* that colour in the new size (the weights of both filters sum to 1); the
\* overlay puts it in the middle of a black canvas of the terminal's size.
resize_and_center(img, terminal_cols, terminal_lines) ==
    LET term_width == terminal_cols
        term_height == Max(terminal_lines - 1, 0)
        black == <<0, 0, 0>>
    IN  IF term_width = 0 \/ term_height = 0
        THEN [width |-> 1, height |-> 1, px |-> <<black>>]
        ELSE IF img.width = 0 \/ img.height = 0
        THEN [width |-> term_width, height |-> term_height,
              px |-> [i \in 1..(term_width * term_height) |-> black]]
        ELSE LET h0 == RoundDiv(img.height * term_width, img.width * CHAR_ASPECT_RATIO)
                 w1 == IF h0 > term_height
                       THEN RoundDiv(term_width * term_height, h0)
                       ELSE term_width
                 h1 == IF h0 > term_height THEN term_height ELSE h0
                 new_width == Max(w1, 1)
                 new_height == Max(h1, 1)
                 start_x == Max(term_width - new_width, 0) \div 2
                 start_y == Max(term_height - new_height, 0) \div 2
             IN  [width |-> term_width, height |-> term_height,
                  px |-> [i \in 1..(term_width * term_height) |->
                            LET x == (i - 1) % term_width
                                y == (i - 1) \div term_width
                            IN  IF /\ x >= start_x /\ x < start_x + new_width
                                   /\ y >= start_y /\ y < start_y + new_height
                                THEN img.rgb
                                ELSE black]]

RleOff ==
    [pc |-> "off",
     resized |-> FALSE,       \* img is what resize_and_center made of src
     src |-> [width |-> 0, height |-> 0, rgb |-> <<0, 0, 0>>],
     cols |-> 0, lines |-> 0, \* terminal_size
     img |-> [width |-> 0, height |-> 0, px |-> <<>>],
     x |-> 0, y |-> 0, current_run |-> <<>>, runs |-> <<>>,
     frame |-> [width |-> 0, runs |-> <<>>],
     k |-> 0, buffer |-> <<>>, current_col |-> 0, current_color |-> <<>>]

RleIdle == rle = RleOff

(***************************************************************************)
(* Player::new and Player::play, playback.rs:78-318, the terminal          *)
(* (terminal.rs) and main (main.rs:247-284).  Durations and instants are   *)
(* whole ticks; playback_start_time is tick 0.                             *)
(***************************************************************************)
\* playback.rs:111, 121: the fallback rate, frames per second.
fallback_rate == 10

\* Duration::from_secs_f32(1.0 / rate), in ticks.
delay_of_rate(rate) == TicksPerSec \div rate

\* Mutant of derive_delay: the audio duration is preferred to the frame rate.
derive_delay_audio_first(original_frame_rate, audio_duration_result, num_frames) ==
    IF audio_duration_result # <<>> /\ audio_duration_result[1] # 0
    THEN [branch |-> "audio", delay |-> audio_duration_result[1] \div num_frames,
          total |-> audio_duration_result[1]]
    ELSE IF original_frame_rate > 0
    THEN [branch |-> "rate", delay |-> delay_of_rate(original_frame_rate),
          total |-> IF audio_duration_result # <<>> THEN audio_duration_result[1]
                    ELSE delay_of_rate(original_frame_rate) * num_frames]
    ELSE [branch |-> "default", delay |-> delay_of_rate(fallback_rate),
          total |-> delay_of_rate(fallback_rate) * num_frames]

\* playback.rs:91-126: sync_frame_delay and total_audio_duration.
\* audio_duration_result is <<>> for Err and <<d>> for Ok(d).
derive_delay(original_frame_rate, audio_duration_result, num_frames) ==
    IF original_frame_rate > 0
    THEN [branch |-> "rate", delay |-> delay_of_rate(original_frame_rate),
          total |-> IF audio_duration_result # <<>> THEN audio_duration_result[1]
                    ELSE delay_of_rate(original_frame_rate) * num_frames]
    ELSE IF audio_duration_result # <<>> /\ audio_duration_result[1] # 0
    THEN [branch |-> "audio", delay |-> audio_duration_result[1] \div num_frames,
          total |-> audio_duration_result[1]]
    ELSE [branch |-> "default", delay |-> delay_of_rate(fallback_rate),
          total |-> delay_of_rate(fallback_rate) * num_frames]

\* Mutant of next_index: the index is not capped at the number of frames.
next_index_unclamped(idx, time_after_draw, delay, num_frames) ==
    LET next_frame_target_time == delay * (idx + 1)
        lag_duration == time_after_draw - next_frame_target_time
        num_frames_to_skip == lag_duration \div delay
    IN  IF time_after_draw > next_frame_target_time /\ num_frames_to_skip > 0
        THEN idx + num_frames_to_skip + 1
        ELSE idx + 1

\* Mutant of next_index: a frame completed exactly at the next target time
\* counts as late by one frame.
next_index_late_on_time(idx, time_after_draw, delay, num_frames) ==
    LET next_frame_target_time == delay * (idx + 1)
        lag == time_after_draw - next_frame_target_time
    IN  IF time_after_draw >= next_frame_target_time
        THEN Min(idx + lag \div delay + 2, num_frames)
        ELSE Min(idx + 1, num_frames)

\* Mutant of next_index: a late frame skips floor(lag / delay) frames, without
\* the frame just drawn.
next_index_skip_only(idx, time_after_draw, delay, num_frames) ==
    LET next_frame_target_time == delay * (idx + 1)
        lag == time_after_draw - next_frame_target_time
    IN  IF time_after_draw > next_frame_target_time /\ lag \div delay > 0
        THEN Min(idx + lag \div delay, num_frames)
        ELSE Min(idx + 1, num_frames)

\* Mutant of next_index: a late frame is drawn again.
next_index_again(idx, time_after_draw, delay, num_frames) ==
    LET next_frame_target_time == delay * (idx + 1)
    IN  IF time_after_draw > next_frame_target_time THEN idx
        ELSE Min(idx + 1, num_frames)

\* playback.rs:279-308: the index after the frame idx was drawn.
next_index(idx, time_after_draw, delay, num_frames) ==
    LET next_frame_target_time == delay * (idx + 1)
        lag_duration == time_after_draw - next_frame_target_time
        num_frames_to_skip == lag_duration \div delay
    IN  IF time_after_draw > next_frame_target_time /\ num_frames_to_skip > 0
        THEN Min(idx + num_frames_to_skip + 1, num_frames)
        ELSE Min(idx + 1, num_frames)

\* Mutant of stop_signal_store: the store flips the flag.
stop_signal_flip(current) == ~current

\* main.rs:93, playback.rs:207, 311: stop_signal.store(true, Ordering::Relaxed),
\* whatever the flag holds.
stop_signal_store(current) == TRUE

\* Mutant of loop_break: only the exit key ends the loop.
loop_break_key_only(exit_key, stop_signal) == exit_key

\* playback.rs:206: check_for_exit()? || self.stop_signal.load(..).
loop_break(exit_key, stop_signal) == exit_key \/ stop_signal

\* The terminal as the program's commands leave it.
TermNormal == [raw |-> FALSE, alt |-> FALSE, hidden |-> FALSE]

\* Mutant of drop_terminal: the alternate screen is not left.
drop_terminal_stay(term) == [term EXCEPT !.raw = FALSE, !.hidden = FALSE]

\* terminal.rs:163-186, Drop for TerminalManager: disable_raw_mode, Show,
\* LeaveAlternateScreen.
drop_terminal(term) == [term EXCEPT !.raw = FALSE, !.hidden = FALSE, !.alt = FALSE]

\* Mutant of drop_sink: the sound goes on when the Sink is dropped.
drop_sink_detached(audio) == audio

\* The locals _stream, stream_handle and sink of play() go out of scope:
\* dropping a rodio Sink that is not detached stops it.  The sink is "paused"
\* or "playing" with the audio file appended, "empty" or "silent" (after
\* play()) without it.
drop_sink(audio) ==
    IF audio \in {"paused", "playing", "empty", "silent"} THEN "stopped" ELSE audio

\* main.rs:252-253: Show and disable_raw_mode.
main_restore(term) == [term EXCEPT !.raw = FALSE, !.hidden = FALSE]

\* main.rs:255-283: the exit code for what catch_unwind(run_app) gave.
exit_code(result) ==
    IF result.ok THEN 0
    ELSE IF result.err = "Interrupted" THEN 130
    ELSE IF result.err = "panic" THEN 101
    ELSE 1

\* Mutant of target_display_time: one interval per frame drawn so far, the
\* frames skipped not counted.
target_display_time_per_drawn(playback_start_time, sync_frame_delay, idx) ==
    playback_start_time + sync_frame_delay * Len(play.drawn)

\* playback.rs:212: playback_start_time + self.sync_frame_delay * (idx as u32).
target_display_time(playback_start_time, sync_frame_delay, idx) ==
    playback_start_time + sync_frame_delay * idx

\* Mutant of warm_up_and_setup: the terminal is entered before the delay.
setup_and_warm_up(events, entered) ==
    events \o (IF entered THEN <<"terminal_entered">> ELSE <<>>) \o <<"warm_up">>

\* playback.rs:187-189: thread::sleep(2000 ms), then terminal_manager.setup()
\* (entered: it returned Ok).
warm_up_and_setup(events, entered) ==
    events \o <<"warm_up">> \o (IF entered THEN <<"terminal_entered">> ELSE <<>>)

PlayOff ==
    [pc |-> "off",
     num_frames |-> 0, frame_rate |-> 0, audio_duration |-> <<>>,
     branch |-> "none", delay |-> 0, total |-> 0,
     idx |-> 0, clock |-> 0,
     drawn |-> <<>>,          \* the indices drawn, in order
     lagged |-> FALSE,        \* a frame was completed after the next target time
     last |-> <<>>,           \* <<idx, time_after_draw, next idx>> of the last frame
     stop_signal |-> FALSE,   \* global_stop_signal, shared with the handler
     by_user |-> FALSE,       \* the flag was stored by the Ctrl-C handler
     after_stop |-> 0,        \* frames drawn since the handler stored the flag
     term |-> TermNormal, audio |-> "none",
     primed |-> FALSE,        \* Priming is over: the loop was entered
     events |-> <<>>,         \* the steps of Priming taken, in order
     cause |-> "none",        \* why the run ended
     result |-> NoResult,     \* what catch_unwind(run_app) gave main
     reported |-> FALSE,      \* main wrote its message
     code |-> -1]             \* the exit code

PlayIdle == play = PlayOff

(***************************************************************************)
(* MetricsMonitor, metrics.rs:8-119: three mutexes (system, metrics_str,   *)
(* running), the thread of play() that calls start, get_metrics and stop,  *)
(* and the sampler thread that start spawns.                               *)
(***************************************************************************)
\* metrics.rs:38: "Metrics initializing...".
Placeholder == [initializing |-> TRUE, sample |-> 0]

\* metrics.rs:96-97: the text formatted from the k-th refresh.
Sample(k) == [initializing |-> FALSE, sample |-> k]

Unlocked == [system |-> "free", metrics_str |-> "free", running |-> "free"]

\* The mutex a thread locks at that place: start and stop lock running
\* (metrics.rs:49, 112), get_metrics metrics_str (117); the sampler locks
\* running at the while (53) and the if (103), system at 54, metrics_str at 99.
lock_of(pc) ==
    IF pc \in {"start", "stop", "while", "if"} THEN "running"
    ELSE IF pc = "sys" THEN "system"
    ELSE "metrics_str"

\* Mutant of after_assign: the guard of metrics_str is kept after the
\* assignment.
after_assign_keep(lock) == lock

\* metrics.rs:99: the guard of metrics_str is a temporary of the assignment
\* statement and is dropped at its end.
after_assign(lock) == [lock EXCEPT !.metrics_str = "free"]

\* metrics.rs:35-40: the monitor MetricsMonitor::new returns.
MetNew ==
    [player |-> "off", sampler |-> "none",
     lock |-> Unlocked,
     running |-> FALSE,
     metrics_str |-> Placeholder,
     new_metrics |-> Placeholder,   \* the sampler's local
     samples |-> 0,                 \* the assignments to metrics_str so far
     reads |-> 0,                   \* the calls of get_metrics that returned
     got |-> Placeholder,           \* what the last one returned
     got_after |-> 0,               \* the assignments made when it cloned the string
     blocked |-> FALSE,             \* the running get_metrics found the mutex locked
     waited |-> 0]                  \* the assignments made since it found it locked

MetricsIdle == met = MetNew

(***************************************************************************)
(* TerminalManager, terminal.rs.  A string is the sequence of its          *)
(* characters; the screen is its rows, a row being the characters from     *)
(* column 0 to the last one that is not blank.                             *)
(***************************************************************************)
\* The characters of the contents drawn: 'a', 'b' and '\n'.
ContentChars == {97, 98, 10}

Contents == SeqsUpTo(ContentChars, MaxContent)

\* The position of the first '\n' of s, 0 when s has none.
first_newline(s) ==
    IF \E k \in 1..Len(s) : s[k] = 10
    THEN CHOOSE k \in 1..Len(s) : s[k] = 10 /\ \A j \in 1..(k - 1) : s[j] # 10
    ELSE 0

\* str::lines: the pieces between the '\n's, each without a trailing '\r'; an
\* empty piece after the last '\n' is not a line.
RECURSIVE str_lines(_)
str_lines(s) ==
    LET nl == first_newline(s)
        strip(l) == IF l # <<>> /\ l[Len(l)] = 13 THEN Take(l, Len(l) - 1) ELSE l
    IN  IF s = <<>> THEN <<>>
        ELSE IF nl = 0 THEN <<strip(s)>>
        ELSE <<strip(Take(s, nl - 1))>> \o str_lines(Drop(s, nl))

\* The screen after Clear(ClearType::All): every row is blank.  A content of
\* MaxContent characters has at most MaxContent lines.
BlankScreen == [y \in 1..MaxContent |-> <<>>]

\* Mutant of line_written: every line of the content is written.
line_written_always(old_lines, new_lines, y) == TRUE

\* terminal.rs:130: y >= old_lines.len() || old_lines[y] != *new_line.
line_written(old_lines, new_lines, y) ==
    y >= Len(old_lines) \/ old_lines[y + 1] # new_lines[y + 1]

\* terminal.rs:129-138: MoveTo(0, y), Print(new_line) for the lines to write,
\* from line y on.
RECURSIVE print_commands(_, _, _)
print_commands(old_lines, new_lines, y) ==
    IF y >= Len(new_lines) THEN <<>>
    ELSE (IF line_written(old_lines, new_lines, y)
          THEN <<[op |-> "print", y |-> y, line |-> new_lines[y + 1]]>>
          ELSE <<>>)
         \o print_commands(old_lines, new_lines, y + 1)

\* terminal.rs:140-152: MoveTo(0, y), Clear(CurrentLine) for the rows that the
\* previous frame had and the new one lacks.
clear_commands(old_lines, new_lines) ==
    IF Len(new_lines) < Len(old_lines)
    THEN [k \in 1..(Len(old_lines) - Len(new_lines)) |->
            [op |-> "clear", y |-> Len(new_lines) + k - 1, line |-> <<>>]]
    ELSE <<>>

\* terminal.rs:126-152: the commands of one draw, in the order of the code.
draw_commands(previous_frame, content) ==
    LET old_lines == str_lines(previous_frame)
        new_lines == str_lines(content)
    IN  print_commands(old_lines, new_lines, 0) \o clear_commands(old_lines, new_lines)

\* What the terminal does with a command: Print at (0, y) replaces the row's
\* characters from column 0 on, as many as the line has, and leaves the rest of
\* the row; Clear(CurrentLine) blanks the row.
execute(screen, cmd) ==
    IF cmd.op = "print"
    THEN [screen EXCEPT ![cmd.y + 1] = cmd.line \o Drop(@, Len(cmd.line))]
    ELSE [screen EXCEPT ![cmd.y + 1] = <<>>]

RECURSIVE execute_all(_, _)
execute_all(screen, cmds) ==
    IF cmds = <<>> THEN screen
    ELSE execute_all(execute(screen, Head(cmds)), Tail(cmds))

\* terminal.rs:25-31: TerminalManager::new, and what the model keeps of the
\* last draw: the frame stored before it, its content, the commands it
\* executed, whether it was the first draw after setup() and clear().
TmNew ==
    [stage |-> "new", previous_frame |-> <<>>, screen |-> BlankScreen,
     before |-> <<>>, content |-> <<>>, done |-> <<>>, first |-> FALSE, ok |-> TRUE]

TmOff == [TmNew EXCEPT !.stage = "off"]

TermIdle == tm = TmOff

\* A call other than draw returned: nothing is kept of the last draw.
TmCalled(st, stage) ==
    [st EXCEPT !.stage = stage, !.before = <<>>, !.content = <<>>, !.done = <<>>,
               !.first = FALSE]

\* terminal.rs:125-160: draw(content) when the first `succeeded` of its writes
\* succeed: all commands and the flush when succeeded exceeds their number.
\* previous_frame is assigned after the last command and before the flush.
draw(st, content, succeeded) ==
    LET cmds == draw_commands(st.previous_frame, content)
        done == Take(cmds, Min(succeeded, Len(cmds)))
        flushed == succeeded > Len(cmds)
    IN  [st EXCEPT !.stage = IF flushed THEN "drawn" ELSE "failed",
                   !.before = st.previous_frame,
                   !.content = content,
                   !.done = done,
                   !.screen = execute_all(st.screen, done),
                   !.previous_frame = IF succeeded >= Len(cmds) THEN content
                                      ELSE st.previous_frame,
                   !.first = (st.stage = "primed"),
                   !.ok = flushed]

(***************************************************************************)
(* The status line of one frame, playback.rs:252-271.                      *)
(***************************************************************************)
\* A status text of n characters: the digits 1, 2, ..., 9, 0, 1, ...
StatusText(n) == [k \in 1..n |-> 48 + (k % 10)]

\* "=".repeat(n).
repeat_eq(n) == [k \in 1..n |-> 61]

\* playback.rs:254: format!("[{}]", status_line).
status_bar_content(status_line) == <<91>> \o status_line \o <<93>>

\* playback.rs:255-262: the first cols characters when there are more.
status_bar_trimmed(status_line, cols) ==
    LET content == status_bar_content(status_line)
    IN  IF Len(content) > cols THEN Take(content, cols) ELSE content

\* Mutant of centered_status: the same padding on both sides.
centered_status_even(status_line, cols) ==
    LET trimmed == status_bar_trimmed(status_line, cols)
        padding_left == (cols - Len(trimmed)) \div 2
    IN  repeat_eq(padding_left) \o trimmed \o repeat_eq(padding_left)

\* playback.rs:263-271: cols.saturating_sub(count as u16), the halves, the line.
centered_status(status_line, cols) ==
    LET trimmed == status_bar_trimmed(status_line, cols)
        count_u16 == Len(trimmed) % 65536
        padding_total == IF cols > count_u16 THEN cols - count_u16 ELSE 0
        padding_left == padding_total \div 2
        padding_right == padding_total - padding_left
    IN  repeat_eq(padding_left) \o trimmed \o repeat_eq(padding_right)

SbOff == [pc |-> "off", status_line |-> <<>>, cols |-> 0, centered |-> <<>>]

StatusIdle == sb = SbOff

(***************************************************************************)
(* SpecCodec: a frame sequence is saved, or an artifact with a valid       *)
(* checksum is written by another program; one byte of a saved artifact    *)
(* may be changed; then load_ascii_frames runs block by block.             *)
(***************************************************************************)
CodecIdle ==
    /\ cframes = <<>>
    /\ cfile = NoFile
    /\ cmode = "off"
    /\ ld = LdIdle

CodecInit ==
    /\ cframes \in FrameSeqs
    /\ cfile = NoFile
    /\ cmode = "new"
    /\ ld = LdIdle
    /\ PipeIdle
    /\ AppIdle
    /\ RleIdle
    /\ PlayIdle
    /\ MetricsIdle
    /\ TermIdle
    /\ StatusIdle

\* A magic another tool writes: "ACSX".
OtherMagic == <<65, 67, 83, 88>>

\* save_ascii_frames(path, cframes), every write succeeding.
CodecSave ==
    /\ cmode = "new"
    /\ cfile' = save_ascii_frames(cframes)
    /\ cmode' = "saved"
    /\ UNCHANGED <<cframes, ld>>
    /\ UNCHANGED exceptCodec

\* One byte of the decompressed artifact changes: header, payload or checksum.
CodecAlter ==
    /\ cmode = "saved"
    /\ ld.stage = "idle"
    /\ \E p \in 1..Len(cfile.bytes) :
         \E b \in ByteVals \ {cfile.bytes[p]} :
            cfile' = [cfile EXCEPT !.bytes[p] = b]
    /\ cmode' = "altered"
    /\ UNCHANGED <<cframes, ld>>
    /\ UNCHANGED exceptCodec

\* An artifact that is not this program's save: any magic, version and frame
\* count over the payload of cframes, with the checksum of exactly those bytes.
CodecForge ==
    /\ cmode = "new"
    /\ \E magic \in {ACSV_MAGIC, OtherMagic} :
         \E version \in {0, ACSV_VERSION, 2} :
            \E count \in (0..(MaxFrames + 1)) \cup {HugeU32} :
               cfile' = zstd_encode(with_checksum(
                            acsv_header(magic, version, count) \o frames_data(cframes)))
    /\ cmode' = "forged"
    /\ UNCHANGED <<cframes, ld>>
    /\ UNCHANGED exceptCodec

\* The decoder returns only the first n bytes of what was saved: a byte string
\* of any length, shorter than a header and a checksum included.
CodecTruncate ==
    /\ cmode = "saved"
    /\ ld.stage = "idle"
    /\ \E n \in 0..(Len(cfile.bytes) - 1) : cfile' = [cfile EXCEPT !.bytes = Take(cfile.bytes, n)]
    /\ cmode' = "truncated"
    /\ UNCHANGED <<cframes, ld>>
    /\ UNCHANGED exceptCodec

CodecLoadable == cmode \in {"saved", "altered", "forged", "truncated"}

CodecLoadOpen ==
    /\ CodecLoadable
    /\ ld.stage = "idle"
    /\ ld' = load_open(LdStart, cfile, "ok")
    /\ UNCHANGED <<cframes, cfile, cmode>>
    /\ UNCHANGED exceptCodec

CodecLoadSize ==
    /\ ld.stage = "size"
    /\ ld' = load_size(ld)
    /\ UNCHANGED <<cframes, cfile, cmode>>
    /\ UNCHANGED exceptCodec

CodecLoadChecksum ==
    /\ ld.stage = "checksum"
    /\ ld' = load_checksum(ld)
    /\ UNCHANGED <<cframes, cfile, cmode>>
    /\ UNCHANGED exceptCodec

CodecLoadMagic ==
    /\ ld.stage = "magic"
    /\ ld' = load_magic(ld)
    /\ UNCHANGED <<cframes, cfile, cmode>>
    /\ UNCHANGED exceptCodec

CodecLoadVersion ==
    /\ ld.stage = "version"
    /\ ld' = load_version(ld)
    /\ UNCHANGED <<cframes, cfile, cmode>>
    /\ UNCHANGED exceptCodec

\* storage.rs:114-120: the count is read and the Vec of that capacity is
\* allocated; when the allocation fails the process aborts inside the call.
CodecLoadFrameCount ==
    /\ ld.stage = "frame_count"
    /\ \E outcome \in with_capacity(load_frame_count(ld).frame_count) :
          ld' = IF outcome = "allocated" THEN load_frame_count(ld)
                ELSE [load_frame_count(ld) EXCEPT !.stage = "aborted"]
    /\ UNCHANGED <<cframes, cfile, cmode>>
    /\ UNCHANGED exceptCodec

CodecLoadFrame ==
    /\ ld.stage = "frames"
    /\ ld' = load_frame(ld)
    /\ UNCHANGED <<cframes, cfile, cmode>>
    /\ UNCHANGED exceptCodec

CodecLoadFinish ==
    /\ ld.stage = "finish"
    /\ ld' = load_finish(ld)
    /\ UNCHANGED <<cframes, cfile, cmode>>
    /\ UNCHANGED exceptCodec

CodecNext ==
    \/ CodecSave
    \/ CodecAlter
    \/ CodecForge
    \/ CodecTruncate
    \/ CodecLoadOpen
    \/ CodecLoadSize
    \/ CodecLoadChecksum
    \/ CodecLoadMagic
    \/ CodecLoadVersion
    \/ CodecLoadFrameCount
    \/ CodecLoadFrame
    \/ CodecLoadFinish

SpecCodec == CodecInit /\ [][CodecNext]_vars

\* The stored checksum of b is the digest of the bytes before it.
ChecksumMatches(b) ==
    /\ Len(b) >= checksum_len
    /\ Drop(b, Len(b) - checksum_len) = Sha256(Take(b, Len(b) - checksum_len))

\* C1: Cache round-trip. Saving a nonempty frame sequence and loading the
\* file returns Ok with the same frames, in the same order.
C1_RoundTrip ==
    (cmode = "saved" /\ ld.stage = "done" /\ cframes # <<>>)
        => ld.res = Ok(cframes)

C1_Witness ==
    /\ cmode = "saved"
    /\ ld.stage = "done"
    /\ Len(cframes) >= 2
    /\ cframes[1] # cframes[2]
    /\ ld.res.ok

\* C2: Integrity detection. After any single-byte change of a saved
\* artifact's decompressed bytes, load returns an error and no frames.
C2_IntegrityDetection ==
    (cmode = "altered" /\ ld.stage = "done")
        => (~ld.res.ok /\ ld.res.val = NoVal /\ ld.frames = <<>>)

\* A payload byte was changed to another text byte, and load has answered.
C2_Witness ==
    /\ cmode = "altered"
    /\ ld.stage = "done"
    /\ cframes # <<>>
    /\ \E p \in (header_len + 1)..(Len(cfile.bytes) - checksum_len) :
          /\ cfile.bytes[p] # save_ascii_frames(cframes).bytes[p]
          /\ cfile.bytes[p] = 65
    /\ ld.res.err = "AcsvIntegrity"

\* The blocks of load_ascii_frames in the order of the code.
LoadOrder ==
    <<"open", "size", "checksum", "magic", "version", "frame_count", "frames", "finish">>

\* The blocks that read a field of the artifact.
FieldBlocks == {"magic", "version", "frame_count", "frames"}

\* C5: Version gate. An artifact with a valid checksum and magic whose version
\* byte is not ACSV_VERSION makes load return UnsupportedAcsvVersion(version)
\* before the frame count or any payload byte is read.
C5_VersionGate ==
    ( /\ CodecLoadable
      /\ ld.stage = "done"
      /\ ChecksumMatches(cfile.bytes)
      /\ Take(cfile.bytes, 4) = ACSV_MAGIC
      /\ cfile.bytes[5] # ACSV_VERSION )
        => /\ ld.res = Err("UnsupportedAcsvVersion", "load")
           /\ ld.version = cfile.bytes[5]
           /\ \A k \in 1..Len(ld.seen) : ld.seen[k] \notin {"frame_count", "frames", "finish"}
           /\ ld.offset = 5
           /\ ld.frames = <<>>

\* A forged artifact of version 0 that holds frames was loaded.
C5_Witness ==
    /\ cmode = "forged"
    /\ ld.stage = "done"
    /\ ChecksumMatches(cfile.bytes)
    /\ Take(cfile.bytes, 4) = ACSV_MAGIC
    /\ cfile.bytes[5] = 0
    /\ cframes # <<>>
    /\ ld.res.err = "UnsupportedAcsvVersion"

\* C6: Checksum-first ordering. No field of the artifact is read before the
\* stored checksum matched; on a mismatch the result is AcsvIntegrity whatever
\* the magic and version bytes are; the blocks run in the order size, checksum,
\* magic, version, frame count, frames.
C6_ChecksumFirst ==
    /\ ld.seen = Take(LoadOrder, Len(ld.seen))
    /\ (\E k \in 1..Len(ld.seen) : ld.seen[k] \in FieldBlocks)
          => ChecksumMatches(cfile.bytes)
    /\ ( /\ ld.stage = "done"
         /\ Len(cfile.bytes) >= header_len + checksum_len
         /\ ~ChecksumMatches(cfile.bytes) )
          => ld.res = Err("AcsvIntegrity", "load")
    /\ (ld.stage = "done" /\ ChecksumMatches(cfile.bytes) /\ Take(cfile.bytes, 4) # ACSV_MAGIC)
          => (ld.res = Err("InvalidAcsv", "load") /\ ld.seen = Take(LoadOrder, 4))

\* A changed magic byte was answered with AcsvIntegrity, not with a magic error.
C6_Witness ==
    /\ cmode = "altered"
    /\ ld.stage = "done"
    /\ Take(cfile.bytes, 4) # ACSV_MAGIC
    /\ ld.res = Err("AcsvIntegrity", "load")
    /\ ld.seen = Take(LoadOrder, 3)

\* The frame count an artifact's header states: the u32 after magic and version.
HeaderCount(b) == from_le_bytes(SubSeq(b, 6, 9))

\* An artifact with a valid checksum, magic and version whose header states
\* another number of frames than its payload holds was loaded.
CountDisagrees ==
    /\ cmode = "forged"
    /\ ld.stage = "done"
    /\ ChecksumMatches(cfile.bytes)
    /\ Take(cfile.bytes, 4) = ACSV_MAGIC
    /\ cfile.bytes[5] = ACSV_VERSION
    /\ HeaderCount(cfile.bytes) # Len(cframes)

\* C35: Frame-count disagreement is not a failure. For an artifact with valid
\* checksum, magic and version whose header frame count differs from the
\* number of frames in the payload (more or fewer), load returns Ok with the
\* frames in the payload.
C35_CountDisagreement == CountDisagrees => ld.res = Ok(cframes)

\* The bytes of the frames read so far are the bytes of the payload from its
\* start: every slice the loop took lies in data_without_hash.
SlicesInside ==
    LET read == frames_data(ld.frames)
    IN  /\ ld.offset <= Len(ld.data)
        /\ ld.frames # <<>> =>
              /\ header_len + Len(read) <= Len(ld.data)
              /\ SubSeq(ld.data, header_len + 1, header_len + Len(read)) = read
        /\ ld.data # <<>> => ld.data = Take(ld.full, Len(ld.full) - checksum_len)

\* A byte string too short for a header and a checksum is rejected by the size
\* check, before the checksum is split off.
ShortRejected ==
    (ld.stage = "done" /\ cfile.zok /\ Len(cfile.bytes) < header_len + checksum_len)
        => /\ ld.res = Err("InvalidAcsv", "load")
           /\ ld.seen = Take(LoadOrder, 2)
           /\ ld.data = <<>>

\* C38: Load is memory-safe on any input. For every decompressed byte string
\* load_ascii_frames returns Ok or Err (the call always returns), every frame
\* slice it reads lies inside the bytes before the trailing checksum, and inputs
\* shorter than 41 bytes are rejected with InvalidAcsv before the checksum split.
C38_LoadMemorySafe ==
    /\ ld.stage # "aborted"
    /\ SlicesInside
    /\ ShortRejected

\* What holds of the code: no read leaves the buffer and short inputs are
\* rejected; the call may end in an abort instead of a return.
C38_Observed == SlicesInside /\ ShortRejected

\* What the code does on a disagreement: a header that states more frames than
\* the payload holds is an InvalidAcsv error; one that states fewer gives Ok
\* with only the first frame_count frames of the payload.
C35_Observed ==
    CountDisagrees =>
        IF HeaderCount(cfile.bytes) > Len(cframes)
        THEN ld.res = Err("InvalidAcsv", "load")
        ELSE ld.res = Ok(Take(cframes, HeaderCount(cfile.bytes)))

(***************************************************************************)
(* SpecPipe: one call of process_frames_parallel.  The closures of         *)
(* par_iter().map() run on rayon's pool: any input may be taken next, and  *)
(* closures return in any order.                                           *)
(***************************************************************************)
PipeInit ==
    /\ pinputs \in {PathsOf(imgs) : imgs \in SeqsUpTo(Images, MaxBatch)}
    /\ pwork = [k \in 1..Len(pinputs) |-> "todo"]
    /\ presults = [k \in 1..Len(pinputs) |-> Unfilled]
    /\ pprogress = 0
    /\ porder = <<>>
    /\ pcoll = [PcollIdle EXCEPT !.pc = "call"]
    /\ CodecIdle
    /\ AppIdle
    /\ RleIdle
    /\ PlayIdle
    /\ MetricsIdle
    /\ TermIdle
    /\ StatusIdle

\* ascii.rs:159-181: no input, no work; otherwise the parallel map starts.
PipeCall ==
    /\ pcoll.pc = "call"
    /\ pcoll' = IF pinputs = <<>>
                THEN [pcoll EXCEPT !.pc = "done", !.res = Ok(<<>>)]
                ELSE [pcoll EXCEPT !.pc = "map"]
    /\ UNCHANGED <<pinputs, pwork, presults, pprogress, porder>>
    /\ UNCHANGED exceptPipe

\* ascii.rs:185-186: a worker runs process_single_frame on some input.
PipeWork ==
    /\ pcoll.pc = "map"
    /\ \E k \in 1..Len(pinputs) :
         /\ pwork[k] = "todo"
         /\ pwork' = [pwork EXCEPT ![k] = "computed"]
    /\ UNCHANGED <<pinputs, presults, pprogress, porder, pcoll>>
    /\ UNCHANGED exceptPipe

\* ascii.rs:187: progress_bar.lock() returns when no other closure holds the
\* guard.  No closure panics with the guard in hand, so the lock is never
\* poisoned and the else branch of ascii.rs:189-194 is not taken.
PipeLock ==
    /\ pcoll.pc = "map"
    /\ \A j \in 1..Len(pinputs) : pwork[j] # "locked"
    /\ \E k \in 1..Len(pinputs) :
         /\ pwork[k] = "computed"
         /\ pwork' = [pwork EXCEPT ![k] = "locked"]
    /\ UNCHANGED <<pinputs, presults, pprogress, porder, pcoll>>
    /\ UNCHANGED exceptPipe

\* ascii.rs:188-195: under the progress bar's lock the position is advanced
\* and the guard dropped, then the closure returns its result, which
\* collect() stores.
PipeReturnItem ==
    /\ pcoll.pc = "map"
    /\ \E k \in 1..Len(pinputs) :
         /\ pwork[k] = "locked"
         /\ pwork' = [pwork EXCEPT ![k] = "done"]
         /\ pprogress' = progress_inc(pprogress, process_single_frame(pinputs[k]))
         /\ presults' = collect_put(presults, k, process_single_frame(pinputs[k]))
         /\ porder' = Append(porder, k)
    /\ UNCHANGED <<pinputs, pcoll>>
    /\ UNCHANGED exceptPipe

\* ascii.rs:197-206: collect() returns when every closure has; the bar is
\* cleared and the collection loop starts.
PipeJoin ==
    /\ pcoll.pc = "map"
    /\ \A k \in 1..Len(pinputs) : pwork[k] = "done"
    /\ pcoll' = [pcoll EXCEPT !.pc = "collect", !.i = 1]
    /\ UNCHANGED <<pinputs, pwork, presults, pprogress, porder>>
    /\ UNCHANGED exceptPipe

\* ascii.rs:208-218: one iteration of the loop over results.
PipeCollect ==
    /\ pcoll.pc = "collect"
    /\ pcoll.i <= Len(presults)
    /\ pcoll' = collect_step(pcoll, presults)
    /\ UNCHANGED <<pinputs, pwork, presults, pprogress, porder>>
    /\ UNCHANGED exceptPipe

\* ascii.rs:220-229: the first error, or all the frames.
PipeReturn ==
    /\ pcoll.pc = "collect"
    /\ pcoll.i > Len(presults)
    /\ pcoll' = collect_return(pcoll)
    /\ UNCHANGED <<pinputs, pwork, presults, pprogress, porder>>
    /\ UNCHANGED exceptPipe

PipeNext ==
    \/ PipeCall
    \/ PipeWork
    \/ PipeLock
    \/ PipeReturnItem
    \/ PipeJoin
    \/ PipeCollect
    \/ PipeReturn

SpecPipe == PipeInit /\ [][PipeNext]_vars

\* The inputs whose image cannot be decoded.
Failing(inputs) == {k \in 1..Len(inputs) : ~process_single_frame(inputs[k]).ok}

\* The inputs whose closure has returned.
Returned == {k \in 1..Len(pinputs) : pwork[k] = "done"}

\* C29: Progress counter. In process_frames_parallel over n inputs the
\* progress bar's position is, at every moment and in every interleaving of
\* the closures, the number of closures that have returned, failed inputs
\* included; at most one closure holds the bar's lock; a step changes the
\* position by nothing or by adding 1; and the position is n when the
\* parallel map is over and when process_frames_parallel returns.
C29_ProgressCounter ==
    /\ [](/\ pprogress = Cardinality(Returned)
          /\ pprogress = Len(porder)
          /\ Cardinality({k \in 1..Len(pinputs) : pwork[k] = "locked"}) <= 1
          /\ pcoll.pc \in {"collect", "done"} => pprogress = Len(pinputs))
    /\ [][pprogress' = pprogress \/ pprogress' = pprogress + 1]_vars

\* Three inputs, the second undecodable; the closures returned in another
\* order than the inputs'; the call has returned its error.
C29_Witness ==
    /\ pcoll.pc = "done"
    /\ Len(pinputs) = MaxBatch
    /\ Failing(pinputs) = {2}
    /\ porder[1] = MaxBatch
    /\ pprogress = MaxBatch
    /\ ~pcoll.res.ok

\* C8: Pipeline output order. When every input succeeds, whatever the order in
\* which the closures return, the result holds one frame per input and
\* result[k] is the frame of input[k].
C8_OutputOrder ==
    (pcoll.pc = "done" /\ Failing(pinputs) = {})
        => /\ pcoll.res.ok
           /\ Len(pcoll.res.val) = Len(pinputs)
           /\ \A k \in 1..Len(pinputs) :
                 pcoll.res.val[k] = process_single_frame(pinputs[k]).val

\* Two inputs with different frames returned in the reverse of input order.
C8_Witness ==
    /\ pcoll.pc = "done"
    /\ Failing(pinputs) = {}
    /\ Len(pinputs) >= 2
    /\ pinputs[1].img # pinputs[2].img
    /\ porder[1] = 2
    /\ pcoll.res.ok

\* C9: Pipeline first-error-wins. When some input fails, the result is the
\* error of the failing input of smallest index, whatever the order in which
\* the closures return, and carries no frame.
C9_FirstErrorWins ==
    (pcoll.pc = "done" /\ Failing(pinputs) # {})
        => LET first == CHOOSE k \in Failing(pinputs) : \A j \in Failing(pinputs) : k <= j
           IN  /\ pcoll.res = Err("Image", pinputs[first].path)
               /\ pcoll.res.val = NoVal

\* Two inputs fail, the later one first in time, and a good input precedes both.
C9_Witness ==
    /\ pcoll.pc = "done"
    /\ Len(pinputs) >= 3
    /\ Failing(pinputs) = {2, 3}
    /\ porder[1] = 3
    /\ pcoll.res = Err("Image", 2)
    /\ pcoll.frames # <<>>

(***************************************************************************)
(* SpecApp: the program is run again and again for the same video and      *)
(* terminal size; Ctrl-C may arrive at any moment of a run; between two    *)
(* runs the cache file may be damaged.                                     *)
(***************************************************************************)
AppInit ==
    /\ AppIdle
    /\ CodecIdle
    /\ PipeIdle
    /\ RleIdle
    /\ PlayIdle
    /\ MetricsIdle
    /\ TermIdle
    /\ StatusIdle

Called(name) == \E k \in 1..Len(run.calls) : run.calls[k] = name

\* run_app returns r.
Return(r) ==
    /\ apc' = "exit"
    /\ run' = [run EXCEPT !.result = r]

\* main.rs:31-103: a new process: logging, the stop flag, the Ctrl-C handler,
\* the arguments.
AppStart ==
    /\ apc = "idle"
    /\ \E regenerate \in BOOLEAN : run' = [RunIdle EXCEPT !.regen = regenerate]
    /\ apc' = "select"
    /\ UNCHANGED <<cache, fhist>>
    /\ UNCHANGED exceptApp

\* main.rs:91-94: the Ctrl-C handler stores true.
AppSignal ==
    /\ apc \notin {"idle", "exit"}
    /\ ~run.stop
    /\ run' = [run EXCEPT !.stop = TRUE]
    /\ UNCHANGED <<apc, cache, fhist>>
    /\ UNCHANGED exceptApp

\* The checkpoints `if global_stop_signal.load(..) { return Err(Interrupted) }`
\* and the block that follows each: main.rs:134, 151, 157, 181/203, 186/208, 217.
CheckNext ==
    [check1 |-> "analyze", check2 |-> "extract_audio", check3 |-> "decide",
     check4 |-> "process", check5 |-> "save", check6 |-> "empty_check"]

\* Mutant of checkpoint: the flag is not looked at after the cleanup.
checkpoint_not_after_cleanup(stop, at) ==
    IF stop /\ at # "check6" THEN Err("Interrupted", at) ELSE NoResult

\* main.rs:134-136 and its five repetitions:
\* if global_stop_signal.load(Ordering::Relaxed) { return Err(AppError::Interrupted); }
checkpoint(stop, at) == IF stop THEN Err("Interrupted", at) ELSE NoResult

AppCheck ==
    /\ apc \in DOMAIN CheckNext
    /\ IF checkpoint(run.stop, apc) # NoResult
       THEN Return(checkpoint(run.stop, apc))
       ELSE /\ apc' = CheckNext[apc]
            /\ run' = IF apc = "check4" THEN [run EXCEPT !.cleanup = TRUE] ELSE run
    /\ UNCHANGED <<cache, fhist>>
    /\ UNCHANGED exceptApp

\* main.rs:105-133: the video path from the arguments or the prompt.
AppSelectVideo ==
    /\ apc = "select"
    /\ \/ /\ apc' = "check1"
          /\ run' = [run EXCEPT !.calls = Append(run.calls, "select")]
       \/ Return(Err("VideoNotFound", "select"))
    /\ UNCHANGED <<cache, fhist>>
    /\ UNCHANGED exceptApp

\* main.rs:138-150: the terminal size and VideoInfo::analyze.
AppAnalyze ==
    /\ apc = "analyze"
    /\ \/ /\ apc' = "check2"
          /\ run' = [run EXCEPT !.calls = Append(run.calls, "analyze")]
       \/ \E e \in {"TerminalSize", "FFprobe", "VideoMetadata"} : Return(Err(e, "analyze"))
    /\ UNCHANGED <<cache, fhist>>
    /\ UNCHANGED exceptApp

\* main.rs:155: video_info.extract_audio()?.
AppExtractAudio ==
    /\ apc = "extract_audio"
    /\ \/ /\ apc' = "check3"
          /\ run' = [run EXCEPT !.calls = Append(run.calls, "extract_audio")]
       \/ Return(Err("FFmpeg", "extract_audio"))
    /\ UNCHANGED <<cache, fhist>>
    /\ UNCHANGED exceptApp

\* Mutant of use_cache: an existing file is loaded whatever the flag.
use_cache_if_exists(exists, regenerate) == exists

\* main.rs:164: video_info.ascii_cache_path.exists() && !args.regenerate.
use_cache(exists, regenerate) == exists /\ ~regenerate

\* main.rs:164, 192: load when the cache file exists and regeneration is not
\* forced; regenerate otherwise.
AppDecide ==
    /\ apc = "decide"
    /\ IF use_cache(cache.exists, run.regen)
       THEN apc' = "load" /\ run' = run
       ELSE apc' = "extract_frames" /\ run' = [run EXCEPT !.path = "miss"]
    /\ UNCHANGED <<cache, fhist>>
    /\ UNCHANGED exceptApp

\* Mutant of on_load: a load error is returned to the caller.
on_load_propagate(r, st, io, origin) ==
    LET r1 == [r EXCEPT !.io = io, !.load = st, !.loaded = origin,
                        !.calls = Append(r.calls, "load")]
    IN  IF st.res.ok THEN [r1 EXCEPT !.path = "hit", !.rle = st.res.val]
        ELSE [r1 EXCEPT !.path = "load_failed", !.result = st.res]

\* main.rs:169-179: Ok(frames) => rle_frames = frames; Err(e) => warn, regenerate.
on_load(r, st, io, origin) ==
    LET r1 == [r EXCEPT !.io = io, !.load = st, !.loaded = origin,
                        !.calls = Append(r.calls, "load")]
    IN  IF st.res.ok THEN [r1 EXCEPT !.path = "hit", !.rle = st.res.val]
        ELSE [r1 EXCEPT !.path = "load_failed"]

\* main.rs:169-179: storage::load_ascii_frames(&video_info.ascii_cache_path).
AppLoad ==
    /\ apc = "load"
    /\ \E io \in {"ok", "open", "decoder", "read"} :
          run' = on_load(run, load_ascii_frames(cache, io), io, fhist.origin)
    /\ apc' = IF run'.result # NoResult THEN "exit"
              ELSE IF run'.path = "hit" THEN "cleanup" ELSE "extract_frames"
    /\ UNCHANGED <<cache, fhist>>
    /\ UNCHANGED exceptApp

\* main.rs:180, 202: video_info.extract_frames()?: ffmpeg writes the frame
\* images, any number of them, decodable or not.
AppExtractFrames ==
    /\ apc = "extract_frames"
    /\ \/ \E imgs \in SeqsUpTo(Images, MaxFrames) :
            /\ run' = [run EXCEPT !.batch = PathsOf(imgs),
                                  !.calls = Append(run.calls, "extract_frames")]
            /\ apc' = "check4"
       \/ Return(Err("FFmpeg", "extract_frames"))
    /\ UNCHANGED <<cache, fhist>>
    /\ UNCHANGED exceptApp

\* Mutant of on_processed: the frames that did rasterize are kept.
on_processed_partial(r) ==
    LET good == {k \in 1..Len(r.batch) : process_single_frame(r.batch[k]).ok}
        RECURSIVE keep(_)
        keep(k) == IF k > Len(r.batch) THEN <<>>
                   ELSE IF k \in good
                        THEN <<process_single_frame(r.batch[k]).val>> \o keep(k + 1)
                        ELSE keep(k + 1)
    IN  [r EXCEPT !.rle = keep(1), !.calls = Append(r.calls, "process")]

\* main.rs:185, 207: rle_frames = ascii::process_frames_parallel(..)?.
on_processed(r) ==
    LET res == process_frames_parallel(r.batch)
        r1 == [r EXCEPT !.calls = Append(r.calls, "process")]
    IN  IF res.ok THEN [r1 EXCEPT !.rle = res.val]
        ELSE [r1 EXCEPT !.result = Err(res.err, "process")]

AppProcess ==
    /\ apc = "process"
    /\ run' = on_processed(run)
    /\ apc' = IF run'.result # NoResult THEN "exit" ELSE "check5"
    /\ UNCHANGED <<cache, fhist>>
    /\ UNCHANGED exceptApp

\* The file a save leaves when it does not finish: created, its zstd frame
\* incomplete.
TornFile == [exists |-> TRUE, zok |-> FALSE, bytes |-> <<>>]

\* Mutant of saved_file: the artifact is written without its frames.
saved_file_header_only(old, frames) == zstd_encode(with_checksum(data_to_hash(<<>>)))

\* Mutant of saved_file: a file that is already there is left as it is.
saved_file_keep_existing(old, frames) ==
    IF old.exists THEN old ELSE save_ascii_frames(frames)

\* storage.rs:17-62: File::create truncates whatever was at the path, and the
\* encoder writes the new artifact.
saved_file(old, frames) == save_ascii_frames(frames)

\* main.rs:189, 211: storage::save_ascii_frames(&ascii_cache_path, &rle_frames)?.
\* The save succeeds; or a write fails and the error is returned; or the
\* process is killed while the file is being written.
AppSave ==
    /\ apc = "save"
    /\ \/ /\ cache' = saved_file(cache, run.rle)
          /\ fhist' = [origin |-> "saved", frames |-> run.rle,
                       healed |-> (run.path = "load_failed" /\ run.loaded \in Damaged)]
          /\ run' = [run EXCEPT !.calls = Append(run.calls, "save")]
          /\ apc' = "cleanup"
       \/ /\ cache' = TornFile
          /\ fhist' = [origin |-> "torn", frames |-> <<>>, healed |-> FALSE]
          /\ \/ Return(Err("Io", "save"))
             \/ apc' = "idle" /\ run' = RunIdle
    /\ UNCHANGED exceptApp

\* main.rs:214-216: the temporary frame directory is removed after a
\* regeneration.
AppCleanup ==
    /\ apc = "cleanup"
    /\ \/ /\ apc' = "check6"
          /\ run' = IF run.cleanup
                    THEN [run EXCEPT !.calls = Append(run.calls, "cleanup")]
                    ELSE run
       \/ /\ run.cleanup
          /\ Return(Err("CleanupFrames", "cleanup"))
    /\ UNCHANGED <<cache, fhist>>
    /\ UNCHANGED exceptApp

\* main.rs:221-226: no frames, nothing to play.
AppEmptyCheck ==
    /\ apc = "empty_check"
    /\ IF run.rle = <<>>
       THEN Return(Err("FrameProcessing", "empty_check"))
       ELSE apc' = "player" /\ run' = run
    /\ UNCHANGED <<cache, fhist>>
    /\ UNCHANGED exceptApp

\* main.rs:228-244: MetricsMonitor::new()?, Player::new(rle_frames, ..)?,
\* player.play()?.  play() stores true in the stop flag when its loop ends.
AppPlayer ==
    /\ apc = "player"
    /\ \/ Return(Err("SystemInfo", "metrics"))
       \/ /\ apc' = "exit"
          /\ \E r \in {Ok(NoVal), Err("AudioPlayback", "play"), Err("Terminal", "play")} :
                run' = [run EXCEPT !.calls = Append(run.calls, "player"),
                                   !.stop = IF r.ok THEN TRUE ELSE run.stop,
                                   !.result = r]
    /\ UNCHANGED <<cache, fhist>>
    /\ UNCHANGED exceptApp

\* main.rs:247-283: main reports the result and the process exits.
AppExit ==
    /\ apc = "exit"
    /\ apc' = "idle"
    /\ run' = RunIdle
    /\ UNCHANGED <<cache, fhist>>
    /\ UNCHANGED exceptApp

\* Between two runs the file is cut short or its stream is made undecodable:
\* the decoder reports an error.
DamageStream ==
    /\ apc = "idle"
    /\ fhist.origin = "saved"
    /\ cache' = [cache EXCEPT !.zok = FALSE]
    /\ fhist' = [fhist EXCEPT !.origin = "torn", !.healed = FALSE]
    /\ UNCHANGED <<apc, run>>
    /\ UNCHANGED exceptApp

\* Between two runs the stream is changed so that the decoder returns only the
\* first n bytes of the artifact.
DamageTruncate ==
    /\ apc = "idle"
    /\ fhist.origin = "saved"
    /\ \E n \in 0..(Len(cache.bytes) - 1) : cache' = [cache EXCEPT !.bytes = Take(cache.bytes, n)]
    /\ fhist' = [fhist EXCEPT !.origin = "truncated", !.healed = FALSE]
    /\ UNCHANGED <<apc, run>>
    /\ UNCHANGED exceptApp

\* Between two runs the stream is changed so that the decoder returns the
\* artifact with one byte changed.
DamageAlter ==
    /\ apc = "idle"
    /\ fhist.origin = "saved"
    /\ \E p \in 1..Len(cache.bytes) :
          cache' = [cache EXCEPT !.bytes[p] = (cache.bytes[p] + 1) % 256]
    /\ fhist' = [fhist EXCEPT !.origin = "altered", !.healed = FALSE]
    /\ UNCHANGED <<apc, run>>
    /\ UNCHANGED exceptApp

\* Between two runs a file that is not this program's save is put at the cache
\* path: any magic, version, frame count and payload, with the checksum of
\* exactly those bytes.
ForeignFile ==
    /\ apc = "idle"
    /\ fhist.origin \in {"none", "saved"}
    /\ \E magic \in {ACSV_MAGIC, OtherMagic} :
         \E version \in {ACSV_VERSION, 2} :
            \E count \in 0..2 :
               \E payload \in {<<>>, <<<<35>>>>, <<<<255>>>>} :
                  cache' = zstd_encode(with_checksum(
                               acsv_header(magic, version, count) \o frames_data(payload)))
    /\ fhist' = [origin |-> "foreign", frames |-> <<>>, healed |-> FALSE]
    /\ UNCHANGED <<apc, run>>
    /\ UNCHANGED exceptApp

AppNext ==
    \/ AppStart
    \/ AppSignal
    \/ AppCheck
    \/ AppSelectVideo
    \/ AppAnalyze
    \/ AppExtractAudio
    \/ AppDecide
    \/ AppLoad
    \/ AppExtractFrames
    \/ AppProcess
    \/ AppSave
    \/ AppCleanup
    \/ AppEmptyCheck
    \/ AppPlayer
    \/ AppExit
    \/ DamageStream
    \/ DamageTruncate
    \/ DamageAlter
    \/ ForeignFile

SpecApp == AppInit /\ [][AppNext]_vars


\* The run regenerates: there was no file, regeneration was forced, or the
\* load failed.
Regenerates == run.path \in {"miss", "load_failed"}

\* C36: No unplayable artifact is ever cached. Over any sequence of runs every
\* artifact written by save_ascii_frames holds a nonempty frame sequence, and a
\* run that gets a cache hit on such an artifact never ends with the
\* FrameProcessing error of an empty sequence.
C36_NoEmptyArtifact ==
    /\ fhist.origin = "saved" => fhist.frames # <<>>
    /\ (apc = "exit" /\ run.path = "hit" /\ run.loaded = "saved")
          => run.result # Err("FrameProcessing", "empty_check")

\* What the code does with an empty batch: the artifact is written first and
\* the run fails with FrameProcessing afterwards.
C36_Observed ==
    (apc = "exit" /\ Regenerates /\ run.result = Err("FrameProcessing", "empty_check"))
        => (Called("save") /\ fhist.origin = "saved" /\ fhist.frames = <<>>)

\* The stages of run_app that follow each checkpoint.
LaterStages ==
    [check1 |-> {"analyze", "extract_audio", "load", "extract_frames", "process",
                 "save", "cleanup", "player"},
     check2 |-> {"extract_audio", "load", "extract_frames", "process", "save",
                 "cleanup", "player"},
     check3 |-> {"load", "extract_frames", "process", "save", "cleanup", "player"},
     check4 |-> {"process", "save", "cleanup", "player"},
     check5 |-> {"save", "cleanup", "player"},
     check6 |-> {"player"}]

\* run_app returned Interrupted.
Interrupted == apc = "exit" /\ run.result.err = "Interrupted"

\* C40 as stated: Interruption before playback. A run whose stop flag is seen
\* set at a checkpoint returns Interrupted, its rasterized frames are not saved
\* to the cache and the Player is never created, whichever checkpoint it is.
C40_InterruptedNeverSaves ==
    Interrupted => (~Called("save") /\ ~Called("player"))

\* C40, amended: when the stop flag is set at a checkpoint, that step returns
\* Interrupted and leaves the cache as it is; no stage that follows the
\* checkpoint has run; the Player is never created; frames are not saved when
\* the checkpoint is one of the five that precede the save (the checkpoint
\* after the cleanup comes after it).
C40_InterruptedStops ==
    /\ [](Interrupted =>
            /\ run.result.at \in DOMAIN CheckNext
            /\ run.stop
            /\ \A stage \in LaterStages[run.result.at] : ~Called(stage)
            /\ ~Called("player")
            /\ run.result.at # "check6" => ~Called("save"))
    /\ [][(apc \in DOMAIN CheckNext /\ run.stop)
            => /\ apc' = "exit"
               /\ run'.result = Err("Interrupted", apc)
               /\ run'.calls = run.calls
               /\ cache' = cache]_vars

\* Ctrl-C arrived while a regenerating run rasterized: the run ended at the
\* checkpoint after the rasterization, its frames in hand and not saved.
C40_Witness ==
    /\ Interrupted
    /\ run.result.at = "check5"
    /\ Called("process")
    /\ run.rle # <<>>
    /\ ~Called("save")

\* The load of this run returned an error.
LoadFailed == Called("load") /\ ~run.load.res.ok

\* The block of load_ascii_frames that returned.
DetectedAt == run.load.seen[Len(run.load.seen)]

\* What rasterizing every input of the batch gives.
Rasterized(batch) == [k \in 1..Len(batch) |-> batch[k].img.frame]

\* The calls of the regeneration path this run made, in order.
RegenCalls ==
    SelectSeq(run.calls, LAMBDA c : c \in {"extract_frames", "process", "save"})

\* C3: The Frame Store absorbs every load failure. Whenever the load of an
\* existing artifact returns an error (an I/O or decompression error, a file
\* too small, a checksum mismatch, a wrong magic or version, a malformed
\* payload, invalid UTF-8), run_app goes on to extract the frames again, and
\* what run_app returns is never that load error.
C3_LoadFailureAbsorbed ==
    LoadFailed =>
        /\ run.path = "load_failed"
        /\ run.result.at # "load"
        /\ run.result # run.load.res
        /\ \/ apc = "extract_frames"
           \/ Called("extract_frames")
           \/ run.result = Err("FFmpeg", "extract_frames")

C3_Witness ==
    /\ LoadFailed
    /\ run.load.res.err = "UnsupportedAcsvVersion"
    /\ RegenCalls = <<"extract_frames", "process", "save">>
    /\ run.result = Ok(NoVal)

\* C4: A cache miss regenerates and saves, and the next run is a hit. A run
\* that regenerates calls extract_frames, process_frames_parallel and
\* save_ascii_frames in that order and ends before the save only by returning
\* the error of one of them or Interrupted; the save writes the artifact of
\* the rasterization of the whole batch; and a run without the regenerate
\* flag that finds that artifact as saved, the file system working, loads
\* exactly the saved frames and extracts, rasterizes and saves nothing.
C4_MissThenHit ==
    /\ Regenerates =>
          /\ \E n \in 0..3 : RegenCalls = Take(<<"extract_frames", "process", "save">>, n)
          /\ (apc = "exit" /\ ~Called("save")) =>
                /\ ~run.result.ok
                /\ run.result.at \in {"extract_frames", "check4", "process", "check5", "save"}
          /\ Called("save") =>
                /\ run.rle = Rasterized(run.batch)
                /\ cache = save_ascii_frames(run.rle)
                /\ fhist = [origin |-> "saved", frames |-> run.rle,
                            healed |-> fhist.healed]
    /\ (Called("load") /\ run.loaded = "saved" /\ run.io = "ok") =>
          /\ run.path = "hit"
          /\ run.load.res = Ok(fhist.frames)
          /\ run.rle = fhist.frames
          /\ RegenCalls = <<>>

C4_Witness ==
    /\ run.path = "hit"
    /\ run.loaded = "saved"
    /\ Len(run.rle) = MaxFrames
    /\ run.result = Ok(NoVal)

\* The position of the first call of that name among the calls of this run.
FirstCall(name) == CHOOSE k \in 1..Len(run.calls) :
                      /\ run.calls[k] = name
                      /\ \A j \in 1..(k - 1) : run.calls[j] # name

\* C23: Forced regeneration. In a run with the regenerate flag set,
\* load_ascii_frames is never called, whether the artifact exists or not: the
\* run goes from the decision to extract_frames, and the save it reaches
\* replaces the artifact by the frames it rasterized.  In a run without the
\* flag that finds the artifact, the load is called before any call of the
\* regeneration; such a run regenerates without a load only when there was
\* no artifact.
C23_ForcedRegeneration ==
    /\ run.regen =>
          /\ ~Called("load")
          /\ run.load = LdIdle
          /\ run.path \in {"none", "miss"}
          /\ (apc = "extract_frames" \/ Called("extract_frames")) => run.path = "miss"
          /\ Called("save") =>
                /\ RegenCalls = <<"extract_frames", "process", "save">>
                /\ cache = save_ascii_frames(Rasterized(run.batch))
          /\ (apc = "exit" /\ run.result.ok) => Called("save")
    /\ (~run.regen /\ run.path # "none") =>
          /\ (Called("load") /\ Called("extract_frames")) =>
                FirstCall("load") < FirstCall("extract_frames")
          /\ (~Called("load") /\ run.result = NoResult /\ ~Called("save")) =>
                ~cache.exists
          /\ (apc = "load" \/ Called("load")) <=> run.path # "miss"

C23_Witness ==
    /\ run.regen
    /\ cache.exists
    /\ fhist.origin = "saved"
    /\ apc = "save"
    /\ RegenCalls = <<"extract_frames", "process">>
    /\ Len(run.rle) >= 1
    /\ run.rle # fhist.frames

\* The load of this run read a file that a save did not finish or that was
\* damaged after it was saved, the file system working.
DamagedLoad == Called("load") /\ run.loaded \in Damaged /\ run.io = "ok"

\* The run after a recovery: the file is the one a recovering run saved.
AfterRecovery ==
    Called("load") /\ run.loaded = "saved" /\ fhist.healed /\ run.io = "ok"

\* What C7 says of the recovery, apart from where the damage is detected.
Recovers ==
    /\ DamagedLoad =>
          /\ run.path = "load_failed"
          /\ apc = "extract_frames" \/ Called("extract_frames")
               \/ run.result = Err("FFmpeg", "extract_frames")
          /\ Called("save") =>
                /\ cache = save_ascii_frames(Rasterized(run.batch))
                /\ fhist.origin = "saved"
                /\ fhist.healed
    /\ AfterRecovery =>
          /\ run.path = "hit"
          /\ run.rle = fhist.frames
          /\ RegenCalls = <<>>

\* C7 as stated: Torn write recovery. The load of a file whose save was cut
\* short or that was truncated or altered detects it at the checksum step
\* (AcsvIntegrity); the run regenerates and overwrites the artifact, and the
\* run after that is a hit.
C7_DetectedAtChecksum ==
    /\ DamagedLoad =>
          /\ run.load.res = Err("AcsvIntegrity", "load")
          /\ DetectedAt = "checksum"
    /\ Recovers

\* C7, amended: Torn write recovery. The load of a file whose save was cut
\* short or that was truncated or altered fails: at decompression (Io), at the
\* size check (InvalidAcsv) or at the checksum step (AcsvIntegrity), before
\* any field of the artifact is read; the run regenerates and overwrites the
\* artifact, and the run after that is a hit.
C7_TornWriteRecovery ==
    /\ DamagedLoad =>
          \/ run.load.res = Err("Io", "load") /\ DetectedAt = "open"
          \/ run.load.res = Err("InvalidAcsv", "load") /\ DetectedAt = "size"
          \/ run.load.res = Err("AcsvIntegrity", "load") /\ DetectedAt = "checksum"
    /\ Recovers

C7_Witness ==
    /\ AfterRecovery
    /\ run.path = "hit"
    /\ run.rle # <<>>
    /\ run.result = Ok(NoVal)

\* C10: Partial sequences are never cached or played. In a run where the
\* rasterization of at least one frame of the batch fails, save_ascii_frames
\* is not called, the Player is not created and run_app returns the image
\* error; whenever a run saves or plays what it regenerated, the sequence has
\* one frame for every input of the batch.
C10_NoPartialSequence ==
    /\ (Called("process") /\ Failing(run.batch) # {}) =>
          /\ ~Called("save")
          /\ ~Called("player")
          /\ apc = "exit"
          /\ run.result = Err("Image", "process")
    /\ (Regenerates /\ (Called("save") \/ Called("player"))) =>
          /\ Failing(run.batch) = {}
          /\ Len(run.rle) = Len(run.batch)
          /\ run.rle = Rasterized(run.batch)

C10_Witness ==
    /\ Called("process")
    /\ Len(run.batch) = MaxFrames
    /\ Failing(run.batch) = {MaxFrames}
    /\ run.result = Err("Image", "process")
    /\ fhist.origin = "none"
    /\ ~cache.exists

(***************************************************************************)
(* SpecRle: an image is encoded pixel by pixel by convert_image_to_ascii   *)
(* and the frame is expanded run by run by reconstruct_frame_string.  The  *)
(* image is any image, or the canvas resize_and_center makes of a decoded  *)
(* image of one colour and a terminal size.                                *)
(***************************************************************************)
RleInit ==
    /\ \/ \E img \in RgbImages : rle = [RleOff EXCEPT !.pc = "convert", !.img = img]
       \/ \E src \in SourceImages, cols \in 0..MaxWidth, lines \in 0..(MaxHeight + 1) :
             rle = [RleOff EXCEPT !.pc = "resize", !.src = src,
                                  !.cols = cols, !.lines = lines]
    /\ CodecIdle
    /\ PipeIdle
    /\ AppIdle
    /\ PlayIdle
    /\ MetricsIdle
    /\ TermIdle
    /\ StatusIdle

\* ascii.rs:150: process_single_frame hands the decoded image and the
\* terminal size to resize_and_center, and the canvas to the encoder.
Resize ==
    /\ rle.pc = "resize"
    /\ rle' = [rle EXCEPT !.pc = "convert", !.resized = TRUE,
                          !.img = resize_and_center(rle.src, rle.cols, rle.lines)]
    /\ UNCHANGED exceptRle

\* ascii.rs:84-90: an image without pixels gives the frame of width 0.
ConvertEmpty ==
    /\ rle.pc = "convert"
    /\ rle.img.width = 0 \/ rle.img.height = 0
    /\ rle' = [rle EXCEPT !.pc = "encoded"]
    /\ UNCHANGED exceptRle

\* ascii.rs:99-135: one pixel of the loops over y and x.
ConvertPixel ==
    /\ rle.pc = "convert"
    /\ rle.img.width > 0 /\ rle.img.height > 0
    /\ rle.y < rle.img.height
    /\ LET rgb == get_pixel(rle.img, rle.x, rle.y)
           s1 == push_pixel(rle, ascii_char(rgb), rgb)
       IN  rle' = IF rle.x + 1 < rle.img.width
                  THEN [s1 EXCEPT !.x = rle.x + 1]
                  ELSE [s1 EXCEPT !.x = 0, !.y = rle.y + 1]
    /\ UNCHANGED exceptRle

\* ascii.rs:137-141: the last run is pushed and the frame returned.
ConvertReturn ==
    /\ rle.pc = "convert"
    /\ rle.img.width > 0 /\ rle.img.height > 0
    /\ rle.y = rle.img.height
    /\ rle' = [rle EXCEPT !.pc = "encoded",
                          !.runs = rle.runs \o rle.current_run,
                          !.current_run = <<>>,
                          !.frame = [width |-> rle.img.width,
                                     runs |-> rle.runs \o rle.current_run]]
    /\ UNCHANGED exceptRle

\* playback.rs:18-20: a frame of width 0 or without runs is the empty string.
ReconEmpty ==
    /\ rle.pc = "encoded"
    /\ rle.frame.width = 0 \/ rle.frame.runs = <<>>
    /\ rle' = [rle EXCEPT !.pc = "done"]
    /\ UNCHANGED exceptRle

\* playback.rs:21-28.
ReconStart ==
    /\ rle.pc = "encoded"
    /\ ~(rle.frame.width = 0 \/ rle.frame.runs = <<>>)
    /\ rle' = [rle EXCEPT !.pc = "reconstruct", !.k = 1]
    /\ UNCHANGED exceptRle

\* playback.rs:30-53: one run.
ReconRun ==
    /\ rle.pc = "reconstruct"
    /\ rle.k <= Len(rle.frame.runs)
    /\ rle' = [expand_run(rle, rle.frame.runs[rle.k], rle.frame.width)
                  EXCEPT !.k = rle.k + 1]
    /\ UNCHANGED exceptRle

\* playback.rs:55-63: a last reset in an unfinished row; a trailing newline
\* is dropped.
ReconReturn ==
    /\ rle.pc = "reconstruct"
    /\ rle.k > Len(rle.frame.runs)
    /\ LET b1 == IF rle.current_col > 0 THEN Append(rle.buffer, Reset) ELSE rle.buffer
           b2 == IF b1 # <<>> /\ b1[Len(b1)] = Newline THEN Take(b1, Len(b1) - 1) ELSE b1
       IN  rle' = [rle EXCEPT !.pc = "done", !.buffer = b2]
    /\ UNCHANGED exceptRle

RleNext ==
    \/ Resize
    \/ ConvertEmpty
    \/ ConvertPixel
    \/ ConvertReturn
    \/ ReconEmpty
    \/ ReconStart
    \/ ReconRun
    \/ ReconReturn

SpecRle == RleInit /\ [][RleNext]_vars

\* The runs made so far: those pushed and the current one.
RunsSoFar == rle.runs \o rle.current_run

\* The index, from 0, of the first cell of run i of a run sequence.
RECURSIVE RunStart(_, _)
RunStart(runs, i) == IF i = 1 THEN 0 ELSE RunStart(runs, i - 1) + runs[i - 1].count

\* The rows of the frame that run i of a run sequence has cells in.
FirstRow(runs, i, width) == RunStart(runs, i) \div width

LastRow(runs, i, width) == (RunStart(runs, i) + runs[i].count - 1) \div width

\* C18 as stated: RLE round-trip. For every image of width and height at
\* least 1, what reconstruct_frame_string writes for the frame that
\* convert_image_to_ascii made shows height rows of width cells whose
\* characters and colours are those of the image, cell by cell.
C18_RleRoundTrip ==
    (rle.pc = "done" /\ rle.img.width >= 1 /\ rle.img.height >= 1) =>
        Shown(rle.buffer, 1, <<>>, <<>>, TRUE) = Grid(rle.img)

\* C19: Run maximality. In every frame convert_image_to_ascii makes, and at
\* every moment of making it, every run has a count of at least 1 and no two
\* consecutive runs, in the same row or not, have the same character and the
\* same colour.
C19_RunMaximality ==
    /\ \A i \in 1..Len(RunsSoFar) : RunsSoFar[i].count >= 1
    /\ \A i \in 1..(Len(RunsSoFar) - 1) :
          ~(/\ RunsSoFar[i].char = RunsSoFar[i + 1].char
            /\ RunsSoFar[i].color = RunsSoFar[i + 1].color)
    /\ rle.pc \in {"encoded", "reconstruct", "done"} => rle.frame.runs = rle.runs

C19_Witness ==
    /\ rle.pc = "encoded"
    /\ rle.img.width = MaxWidth
    /\ Len(rle.frame.runs) >= 2
    /\ LastRow(rle.frame.runs, 2, rle.frame.width) = 0
    /\ \E i \in 1..Len(rle.frame.runs) : rle.frame.runs[i].count >= 2

\* C20 as stated: Row-bounded runs. In every frame convert_image_to_ascii
\* makes, the cells of each run lie in one row of the frame.
C20_RowBoundedRuns ==
    (rle.pc = "encoded" /\ rle.frame.width >= 1) =>
        \A i \in 1..Len(rle.frame.runs) :
            FirstRow(rle.frame.runs, i, rle.frame.width)
                = LastRow(rle.frame.runs, i, rle.frame.width)

\* The number of cells of a run sequence.
Cells(runs) == RunStart(runs, Len(runs) + 1)

\* The image has pixels, all of one colour.
Uniform(img) ==
    /\ img.width >= 1 /\ img.height >= 1
    /\ \A i \in 1..(img.width * img.height) : img.px[i] = img.px[1]

\* The characters of the rows a terminal shows for the written sequence.
ShownChars ==
    LET rows == Shown(rle.buffer, 1, <<>>, <<>>, TRUE)
    IN  [y \in 1..Len(rows) |-> [x \in 1..Len(rows[y]) |-> rows[y][x].char]]

\* C21: Uniform-image fixture. For a canvas of width w and height h whose
\* pixels all have one colour, the frame convert_image_to_ascii makes has
\* exactly one run, of that colour's glyph and with count w * h, and
\* reconstruct_frame_string writes h lines of w copies of that glyph.
C21_UniformImage ==
    (rle.pc \in {"encoded", "reconstruct", "done"} /\ Uniform(rle.img)) =>
        /\ rle.frame.runs = <<RleRun(ascii_char(rle.img.px[1]), rle.img.px[1],
                                     rle.img.width * rle.img.height)>>
        /\ rle.pc = "done" =>
              ShownChars = [y \in 1..rle.img.height |->
                              [x \in 1..rle.img.width |-> ascii_char(rle.img.px[1])]]

C21_Witness ==
    /\ rle.pc = "done"
    /\ ~rle.resized
    /\ Uniform(rle.img)
    /\ rle.img.width = MaxWidth /\ rle.img.height = MaxHeight
    /\ rle.img.px[1] = <<255, 255, 255>>
    /\ rle.frame.runs[1].count = MaxWidth * MaxHeight
    /\ Len(ShownChars) = MaxHeight

\* The inputs of resize_and_center that leave nothing to draw: an image of
\* width or height 0, no columns, or at most one line.
Degenerate ==
    /\ rle.resized
    /\ \/ rle.src.width = 0 \/ rle.src.height = 0
       \/ rle.cols = 0 \/ rle.lines <= 1

\* C22: Degenerate inputs do not fail. For a decoded image of width or height
\* 0, or a terminal of 0 columns or of at most 1 line, resize_and_center
\* gives a canvas with pixels, all black, and convert_image_to_ascii a frame
\* of width at least 1 with at least one run, every run of the darkest glyph
\* in black, the runs covering the canvas.
C22_DegenerateInputs ==
    Degenerate =>
        /\ rle.pc \in {"convert", "encoded", "reconstruct", "done"} =>
              /\ rle.img.width >= 1 /\ rle.img.height >= 1
              /\ \A i \in 1..(rle.img.width * rle.img.height) :
                    rle.img.px[i] = <<0, 0, 0>>
        /\ rle.pc \in {"encoded", "reconstruct", "done"} =>
              /\ rle.frame.width >= 1
              /\ rle.frame.runs # <<>>
              /\ \A i \in 1..Len(rle.frame.runs) :
                    /\ rle.frame.runs[i].char = ASCII_CHARS[1]
                    /\ rle.frame.runs[i].color = <<0, 0, 0>>
                    /\ rle.frame.runs[i].count >= 1
              /\ Cells(rle.frame.runs) = rle.img.width * rle.img.height

C22_Witness ==
    /\ rle.pc = "encoded"
    /\ Degenerate
    /\ rle.src.width = 0 /\ rle.src.height = MaxHeight
    /\ rle.cols = MaxWidth /\ rle.lines = MaxHeight + 1
    /\ rle.frame = [width |-> MaxWidth,
                    runs |-> <<RleRun(ASCII_CHARS[1], <<0, 0, 0>>, MaxWidth * MaxHeight)>>]

\* C30: Frame shape invariant. The frame convert_image_to_ascii makes of a
\* canvas of width w >= 1 and height h >= 1 has width w and runs whose
\* counts sum to w * h; while the canvas is being encoded the counts sum to
\* the number of pixels read.
C30_FrameShape ==
    (rle.img.width >= 1 /\ rle.img.height >= 1) =>
        /\ rle.pc = "convert" => Cells(RunsSoFar) = rle.y * rle.img.width + rle.x
        /\ rle.pc \in {"encoded", "reconstruct", "done"} =>
              /\ rle.frame.width = rle.img.width
              /\ Cells(rle.frame.runs) = rle.img.width * rle.img.height

C30_Witness ==
    /\ rle.pc = "encoded"
    /\ rle.img.width = MaxWidth /\ rle.img.height = MaxHeight
    /\ Len(rle.frame.runs) >= 3
    /\ rle.frame.width = MaxWidth
    /\ Cells(rle.frame.runs) = MaxWidth * MaxHeight

(***************************************************************************)
(* SpecPlay: one run of the program from the creation of the               *)
(* TerminalManager (main.rs:86) through Player::new and play() to exit(),  *)
(* the Ctrl-C handler storing the stop flag at any moment.                 *)
(***************************************************************************)
\* video_info.frame_rate, frames per second.
Rates == {0, 5, 10, 20}

\* get_audio_duration: Err, Ok(0) or Ok(d), d in ticks.
AudioResults == {<<>>, <<0>>, <<8>>}

PlayInit ==
    /\ \E n \in 0..MaxPlayFrames : \E rate \in Rates : \E a \in AudioResults :
          play = [PlayOff EXCEPT !.pc = "run_app", !.num_frames = n,
                                 !.frame_rate = rate, !.audio_duration = a]
    /\ CodecIdle
    /\ PipeIdle
    /\ AppIdle
    /\ RleIdle
    /\ MetricsIdle
    /\ TermIdle
    /\ StatusIdle

\* play() or run_app returns r, or unwinds when r is a panic.
Leave(st, r, cause, pc) == [st EXCEPT !.result = r, !.cause = cause, !.pc = pc]

\* main.rs:91-94: the Ctrl-C handler stores true.
PlaySignal ==
    /\ play.pc \notin {"off", "exited"}
    /\ ~play.by_user
    /\ play' = [play EXCEPT !.stop_signal = stop_signal_store(play.stop_signal),
                            !.by_user = TRUE]
    /\ UNCHANGED exceptPlay

\* main.rs:86-226: what run_app does before it creates the Player.  It
\* returns Interrupted at a checkpoint that finds the flag stored, another
\* error, FrameProcessing when there is no frame, or it panics.
PlayPrepare ==
    /\ play.pc = "run_app"
    /\ \/ /\ play.stop_signal
          /\ play' = Leave(play, Err("Interrupted", "run_app"), "interrupted", "run_ret")
       \/ \E e \in {"Io", "panic"} :
             play' = Leave(play, Err(e, "run_app"), IF e = "panic" THEN "panic" ELSE "error",
                           "run_ret")
       \/ /\ play.num_frames = 0
          /\ play' = Leave(play, Err("FrameProcessing", "run_app"), "error", "run_ret")
       \/ /\ play.num_frames > 0
          /\ play' = [play EXCEPT !.pc = "new"]
    /\ UNCHANGED exceptPlay

\* main.rs:228-236, playback.rs:78-148: Player::new.
PlayNew ==
    /\ play.pc = "new"
    /\ IF play.num_frames = 0
       THEN play' = Leave(play, Err("FrameProcessing", "new"), "error", "run_ret")
       ELSE LET d == derive_delay(play.frame_rate, play.audio_duration, play.num_frames)
            IN  play' = [play EXCEPT !.pc = "audio", !.branch = d.branch,
                                     !.delay = d.delay, !.total = d.total]
    /\ UNCHANGED exceptPlay

\* playback.rs:156-185: the output stream and the sink; the audio file is
\* appended and the sink paused, or, when the file cannot be opened or decoded
\* (what made get_audio_duration return Err), the sink stays empty.
PlayAudio ==
    /\ play.pc = "audio"
    /\ \/ play' = Leave(play, Err("AudioPlayback", "play"), "error", "play_ret")
       \/ /\ play.audio_duration # <<>>
          /\ play' = [play EXCEPT !.pc = "setup", !.audio = "paused",
                                  !.events = Append(play.events, "audio_paused")]
       \/ /\ play.audio_duration = <<>>
          /\ play' = [play EXCEPT !.pc = "setup", !.audio = "empty"]
    /\ UNCHANGED exceptPlay

\* playback.rs:187-189, terminal.rs:33-63: the warm-up sleep, then setup().
\* get_size().unwrap() may panic; enable_raw_mode may fail; the execute! of
\* EnterAlternateScreen and Hide may fail after writing any part of it.
PlaySetup ==
    /\ play.pc = "setup"
    /\ LET slept == [play EXCEPT !.events = warm_up_and_setup(play.events, FALSE)]
           entered == [play EXCEPT !.events = warm_up_and_setup(play.events, TRUE)]
       IN  \/ play' = Leave(slept, Err("panic", "setup"), "panic", "play_ret")
           \/ play' = Leave(slept, Err("Terminal", "setup"), "error", "play_ret")
           \/ \E alt \in BOOLEAN : \E hidden \in {h \in BOOLEAN : h => alt} :
                 play' = Leave([slept EXCEPT !.term = [raw |-> TRUE, alt |-> alt,
                                                       hidden |-> hidden]],
                               Err("Terminal", "setup"), "error", "play_ret")
           \/ play' = [entered EXCEPT !.pc = "start",
                                      !.term = [raw |-> TRUE, alt |-> TRUE, hidden |-> TRUE]]
    /\ UNCHANGED exceptPlay

\* playback.rs:190-203: clear()?, sink.play(), the metrics thread, then
\* playback_start_time = Instant::now(): the clock starts.
PlayStart ==
    /\ play.pc = "start"
    /\ \/ play' = Leave(play, Err("Terminal", "clear"), "error", "play_ret")
       \/ play' = [play EXCEPT !.pc = "top",
                               !.audio = IF play.audio = "paused" THEN "playing" ELSE "silent",
                               !.primed = TRUE,
                               !.events = play.events \o <<"audio_started", "clock_start">>,
                               !.clock = 0, !.idx = 0]
    /\ UNCHANGED exceptPlay

\* playback.rs:205: idx < num_frames is false.
PlayLoopEnd ==
    /\ play.pc = "top"
    /\ play.idx >= play.num_frames
    /\ play' = [play EXCEPT !.pc = "stopping", !.cause = "completed"]
    /\ UNCHANGED exceptPlay

\* playback.rs:206-210: the exit poll and the stop flag.
PlayCheck ==
    /\ play.pc = "top"
    /\ play.idx < play.num_frames
    /\ \/ play' = Leave(play, Err("Terminal", "check_for_exit"), "error", "play_ret")
       \/ \E exit_key \in BOOLEAN :
             IF loop_break(exit_key, play.stop_signal)
             THEN play' = [play EXCEPT !.pc = "stopping",
                                       !.stop_signal = stop_signal_store(play.stop_signal),
                                       !.cause = IF exit_key THEN "user_exit" ELSE "stop_flag"]
             ELSE play' = [play EXCEPT !.pc = "wait"]
    /\ UNCHANGED exceptPlay

\* playback.rs:212-221: sleep until the frame's target time.
PlayWait ==
    /\ play.pc = "wait"
    /\ LET target == target_display_time(0, play.delay, play.idx)
       IN  play' = [play EXCEPT !.pc = "draw",
                                !.clock = IF play.clock < target THEN target ELSE play.clock]
    /\ UNCHANGED exceptPlay

\* playback.rs:223-308: the frame and the status line are drawn, which takes
\* some time, and the next index is chosen.  get_size()? or draw()? may
\* return an error, and the iteration may panic.
PlayDraw ==
    /\ play.pc = "draw"
    /\ \/ play' = Leave(play, Err("TerminalSize", "get_size"), "error", "play_ret")
       \/ play' = Leave(play, Err("panic", "draw"), "panic", "play_ret")
       \/ play' = Leave(play, Err("Io", "draw"), "error", "play_ret")
       \/ \E took \in 0..MaxDelay :
             LET time_after_draw == play.clock + took
                 next == next_index(play.idx, time_after_draw, play.delay, play.num_frames)
             IN  play' = [play EXCEPT
                     !.pc = "top",
                     !.clock = time_after_draw,
                     !.drawn = Append(play.drawn, play.idx),
                     !.after_stop = play.after_stop + (IF play.stop_signal THEN 1 ELSE 0),
                     !.lagged = play.lagged \/ time_after_draw > play.delay * (play.idx + 1),
                     !.last = <<play.idx, time_after_draw, next>>,
                     !.idx = next]
    /\ UNCHANGED exceptPlay

\* playback.rs:311-317: the flag is stored, the sink stopped, Ok(()) returned.
PlayStop ==
    /\ play.pc = "stopping"
    /\ play' = [play EXCEPT !.pc = "play_ret",
                            !.stop_signal = stop_signal_store(play.stop_signal),
                            !.audio = "stopped", !.result = Ok(NoVal)]
    /\ UNCHANGED exceptPlay

\* play() returns or unwinds: its locals, the sink among them, are dropped.
\* main.rs:238-242: play_result?.
PlayReturn ==
    /\ play.pc = "play_ret"
    /\ play' = [play EXCEPT !.pc = "run_ret", !.audio = drop_sink(play.audio)]
    /\ UNCHANGED exceptPlay

\* run_app returns or unwinds: the TerminalManager, in run_app or in the
\* Player, is dropped.
PlayRunAppReturn ==
    /\ play.pc = "run_ret"
    /\ play' = [play EXCEPT !.pc = "main", !.term = drop_terminal(play.term)]
    /\ UNCHANGED exceptPlay

\* main.rs:248-253: catch_unwind returned; Show, disable_raw_mode.
PlayMain ==
    /\ play.pc = "main"
    /\ play' = [play EXCEPT !.pc = "report", !.term = main_restore(play.term)]
    /\ UNCHANGED exceptPlay

\* main.rs:255-283: the message and exit(code).
PlayExit ==
    /\ play.pc = "report"
    /\ play' = [play EXCEPT !.pc = "exited", !.reported = TRUE,
                            !.code = exit_code(play.result)]
    /\ UNCHANGED exceptPlay

PlayNext ==
    \/ PlaySignal
    \/ PlayPrepare
    \/ PlayNew
    \/ PlayAudio
    \/ PlaySetup
    \/ PlayStart
    \/ PlayLoopEnd
    \/ PlayCheck
    \/ PlayWait
    \/ PlayDraw
    \/ PlayStop
    \/ PlayReturn
    \/ PlayRunAppReturn
    \/ PlayMain
    \/ PlayExit

SpecPlay == PlayInit /\ [][PlayNext]_vars

\* SpecPlay with every step of the frame loop returning: the exit poll, the
\* sleep until the target time, the draw, and the test that ends the loop.
SpecPlayLive ==
    /\ SpecPlay
    /\ WF_vars(PlayLoopEnd)
    /\ WF_vars(PlayCheck)
    /\ WF_vars(PlayWait)
    /\ WF_vars(PlayDraw)

\* C34: Cancellation flag monotonicity. The shared stop flag starts false,
\* every write to it (the signal handler, the loop on exit, the end of play)
\* stores true, and once it is true it is never false again; after play()
\* returned Ok it is true.
C34_StopFlagMonotone ==
    /\ ~play.stop_signal
    /\ [][play.stop_signal => play'.stop_signal]_vars
    /\ [][play'.stop_signal # play.stop_signal => play'.stop_signal]_vars
    /\ [](play.result.ok => play.stop_signal)

\* The handler stored the flag, the loop saw it and stored it again, the end of
\* play() stored it a third time, and the process has exited.
C34_Witness ==
    /\ play.by_user
    /\ play.cause = "stop_flag"
    /\ play.result.ok
    /\ play.pc = "exited"
    /\ play.stop_signal

\* The frames drawn so far have indices below num_frames, each larger than the
\* one before.
DrawnIncreasing ==
    \A k \in 1..Len(play.drawn) :
        /\ play.drawn[k] < play.num_frames
        /\ k > 1 => play.drawn[k - 1] < play.drawn[k]

\* C39: Playback loop termination. For every frame count >= 1, interval and
\* pattern of lags, an iteration that draws moves the index up, so the loop
\* takes at most num_frames iterations and, each of its steps returning, ends;
\* the frames drawn by a loop that ran to its end number between 1 and
\* num_frames, and the drawn indices are strictly increasing.
C39_LoopTermination ==
    /\ [](/\ Len(play.drawn) <= play.num_frames
          /\ DrawnIncreasing
          /\ play.cause = "completed" => Len(play.drawn) >= 1)
    /\ [][(play.pc = "draw" /\ play'.pc = "top")
            => (play'.idx > play.idx /\ play'.idx <= play.num_frames)]_vars
    /\ (play.pc = "top") ~> (play.pc \notin {"top", "wait", "draw"})

\* Frames were skipped: the loop ran to its end and drew fewer frames than
\* there are, the first and a later one among them.
C39_Witness ==
    /\ play.cause = "completed"
    /\ play.num_frames = MaxPlayFrames
    /\ Len(play.drawn) = 2
    /\ play.lagged
    /\ play.pc = "play_ret"

\* main is about to report, or has reported and called exit().
Reporting == play.pc \in {"report", "exited"}

\* C11: Scheduler monotonicity. As long as every frame was completed no later
\* than the next frame's target time, the frames drawn are 0, 1, 2, ... in
\* that order, each once; and when the loop ends because the index reached
\* num_frames (no exit key, no stop flag), they are all of 0..num_frames-1.
C11_SchedulerMonotonicity ==
    ~play.lagged =>
        /\ play.drawn = [k \in 1..Len(play.drawn) |-> k - 1]
        /\ play.cause = "completed" => Len(play.drawn) = play.num_frames

C11_Witness ==
    /\ play.cause = "completed"
    /\ ~play.lagged
    /\ Len(play.drawn) = MaxPlayFrames
    /\ play.pc = "exited"

\* C12: Lag compensation. After frame i was drawn with interval I: when the
\* completion time exceeds next_target = (i + 1) * I by the lag L, the next
\* index is i + floor(L / I) + 1, capped at num_frames; otherwise it is i + 1.
C12_LagCompensation ==
    play.last # <<>> =>
        LET i == play.last[1]
            completion == play.last[2]
            next == play.last[3]
            next_target == (i + 1) * play.delay
            L == completion - next_target
        IN  IF completion > next_target
            THEN next = Min(i + (L \div play.delay) + 1, play.num_frames)
            ELSE next = i + 1

C12_Witness ==
    /\ play.last # <<>>
    /\ play.last[2] > (play.last[1] + 1) * play.delay
    /\ play.last[3] = play.last[1] + 3
    /\ play.last[3] < play.num_frames

\* C13: Cancellation response. When the loop breaks on the exit key or on the
\* stop flag, the frame of that iteration has not been waited for or drawn;
\* and once the stop flag is stored at most one more frame is drawn.
C13_CancellationResponse ==
    /\ play.after_stop <= 1
    /\ play.cause \in {"user_exit", "stop_flag"} =>
          /\ play.idx < play.num_frames
          /\ \A k \in 1..Len(play.drawn) : play.drawn[k] < play.idx

C13_Witness ==
    /\ play.cause = "stop_flag"
    /\ play.after_stop = 1
    /\ Len(play.drawn) = 2
    /\ play.idx < play.num_frames

\* C14: Stopping is unconditional. However play() left the frame loop once
\* Priming was over (index at num_frames, exit key, stop flag, an error of
\* the exit poll, of the size query or of draw, a panic), when main reports
\* the result the audio output is stopped and the terminal is out of raw
\* mode, out of the alternate screen and shows its cursor.
C14_StoppingUnconditional ==
    (play.primed /\ Reporting) =>
        /\ play.audio = "stopped"
        /\ play.term = TermNormal

C14_Witness ==
    /\ play.primed
    /\ play.pc = "report"
    /\ play.result = Err("Io", "draw")
    /\ play.drawn # <<>>

\* C15 as stated: Exit codes. The process exits with 0 only when all frames
\* were scheduled to the end, with 130 whenever the run ended on the user's
\* interruption (Interrupted before playback, the exit key or the stop flag in
\* the play loop), with 1 on an error and with 101 on a panic.
C15_ExitCodes ==
    play.pc = "exited" =>
        /\ play.code = 0 <=> play.cause = "completed"
        /\ play.cause \in {"interrupted", "user_exit", "stop_flag"} => play.code = 130
        /\ play.cause = "error" => play.code = 1
        /\ play.cause = "panic" => play.code = 101

\* C16: Terminal restoration on every exit path. Whatever run_app gave (Ok,
\* Interrupted, another error, a panic), before main reports and calls exit()
\* the terminal is out of raw mode, out of the alternate screen and shows its
\* cursor.
C16_TerminalRestored ==
    Reporting =>
        /\ ~play.term.raw
        /\ ~play.term.alt
        /\ ~play.term.hidden

C16_Witness ==
    /\ play.pc = "report"
    /\ play.result = Err("panic", "draw")
    /\ play.primed
    /\ play.term = TermNormal

\* C17: Interval derivation. Player::new takes the interval of the frame rate
\* when the rate is above 0; otherwise audio_duration / num_frames when the
\* audio duration is known and not zero; otherwise the interval of 10 frames
\* per second; one branch, and only one, is taken for every input.
C17_IntervalDerivation ==
    play.branch # "none" =>
        LET by_rate == play.frame_rate > 0
            by_audio == /\ ~by_rate
                        /\ play.audio_duration # <<>>
                        /\ play.audio_duration[1] # 0
        IN  /\ by_rate => (play.branch = "rate"
                            /\ play.delay = TicksPerSec \div play.frame_rate)
            /\ by_audio => (play.branch = "audio"
                            /\ play.delay = play.audio_duration[1] \div play.num_frames)
            /\ (~by_rate /\ ~by_audio) => (play.branch = "default"
                            /\ play.delay = TicksPerSec \div fallback_rate)
            /\ play.branch \in {"rate", "audio", "default"}

C17_Witness ==
    /\ play.branch = "audio"
    /\ play.frame_rate = 0
    /\ play.num_frames = MaxPlayFrames
    /\ play.pc = "audio"

\* C25: Playback index invariant. In play() the index never decreases, is at
\* least 1 higher after every iteration that drew its frame, never exceeds
\* the number of frames, and is below the number of frames wherever
\* rle_frames[idx] is read: the frames drawn have strictly increasing indices
\* below num_frames.
C25_IndexInvariant ==
    /\ [](/\ play.idx >= 0
          /\ play.idx <= play.num_frames
          /\ play.pc \in {"wait", "draw"} => play.idx < play.num_frames
          /\ \A k \in 1..Len(play.drawn) :
                /\ play.drawn[k] < play.num_frames
                /\ k > 1 => play.drawn[k - 1] < play.drawn[k]
          /\ play.last # <<>> =>
                /\ play.last[3] >= play.last[1] + 1
                /\ play.last[3] <= play.num_frames)
    /\ [][/\ play'.idx >= play.idx
          /\ (play.pc = "draw" /\ play'.pc = "top") => play'.idx >= play.idx + 1]_vars

\* The last frame was late by so much that the index was capped.
C25_Witness ==
    /\ play.pc = "top"
    /\ play.last # <<>>
    /\ play.idx = play.num_frames
    /\ play.last[1] + (play.last[2] - play.delay * (play.last[1] + 1)) \div play.delay + 1
          > play.num_frames
    /\ Len(play.drawn) >= 2

\* C26: No early display. The frame of index i is drawn at or after
\* playback_start_time + i * sync_frame_delay, a target computed from the
\* fixed start and the index whatever frames were skipped; the wait ends at
\* the target when the target is ahead, and a frame whose target is past is
\* drawn without waiting.
C26_NoEarlyDisplay ==
    /\ [](/\ play.pc = "draw" => play.clock >= play.delay * play.idx
          /\ play.last # <<>> => play.last[2] >= play.delay * play.last[1])
    /\ [][(play.pc = "wait" /\ play'.pc = "draw") =>
            /\ play'.idx = play.idx
            /\ play'.clock = Max(play.clock, play.delay * play.idx)]_vars

\* A frame after skipped ones is about to be drawn at its target time, the
\* loop having waited for it.
C26_Witness ==
    /\ play.pc = "draw"
    /\ play.idx > Len(play.drawn)
    /\ play.last # <<>>
    /\ play.last[2] < play.clock
    /\ play.clock = play.delay * play.idx

\* C27 as stated: Total displayed duration. With a frame rate above 0, the
\* total duration play() displays is the audio duration when it is known, and
\* sync_frame_delay * num_frames whenever it is not known: when
\* get_audio_duration returned Err (file missing or undecodable) and when it
\* returned Ok(Duration::ZERO) for a source without a determinable duration.
C27_TotalDuration ==
    (play.branch # "none" /\ play.frame_rate > 0) =>
        IF play.audio_duration # <<>> /\ play.audio_duration[1] # 0
        THEN play.total = play.audio_duration[1]
        ELSE play.total = play.delay * play.num_frames

\* The steps of Priming in an order, without the audio step when the audio
\* file could not be opened or decoded.
Steps(order) ==
    IF play.audio_duration = <<>>
    THEN SelectSeq(order, LAMBDA e : e # "audio_paused")
    ELSE order

IsPrefix(s, t) == Len(s) <= Len(t) /\ s = Take(t, Len(s))

\* The steps taken are the first steps of that order; all of them are taken
\* when the loop is entered, and no frame is drawn before.
Primes(order) ==
    /\ IsPrefix(play.events, Steps(order))
    /\ play.primed => play.events = Steps(order)
    /\ play.drawn # <<>> => play.primed

\* C28 as stated: Priming order. play() takes the steps of Priming in this
\* order: the audio is loaded and paused, the terminal is put in raw mode and
\* the alternate screen, the warm-up delay elapses, the audio is started, the
\* playback clock's start is taken; no frame is drawn before the clock start.
C28_PrimingOrder ==
    Primes(<<"audio_paused", "terminal_entered", "warm_up", "audio_started", "clock_start">>)

\* C28, amended: the warm-up delay elapses before the terminal is entered:
\* the audio is loaded and paused, the warm-up delay elapses, the terminal is
\* put in raw mode and the alternate screen, the audio is started, the
\* playback clock's start is taken; no frame is drawn before the clock start.
C28_PrimingOrderObserved ==
    Primes(<<"audio_paused", "warm_up", "terminal_entered", "audio_started", "clock_start">>)

C28_Witness ==
    /\ play.primed
    /\ play.audio = "playing"
    /\ play.term = [raw |-> TRUE, alt |-> TRUE, hidden |-> TRUE]
    /\ Len(play.events) = 5
    /\ play.drawn = <<0>>

(***************************************************************************)
(* SpecMetrics: play() calls start (playback.rs:195), get_metrics once per *)
(* frame drawn (playback.rs:230) and stop (playback.rs:312); the sampler   *)
(* thread runs the loop of metrics.rs:53-106.  Locking a mutex and what is *)
(* done under it are two steps.                                            *)
(***************************************************************************)
MetricsInit ==
    /\ met = [MetNew EXCEPT !.player = "start"]
    /\ CodecIdle
    /\ PipeIdle
    /\ AppIdle
    /\ RleIdle
    /\ PlayIdle
    /\ TermIdle
    /\ StatusIdle

\* The thread is at a lock() and the mutex is locked.
PlayerBlocked ==
    /\ met.player \in {"start", "get", "stop"}
    /\ met.lock[lock_of(met.player)] # "free"

SamplerBlocked ==
    /\ met.sampler \in {"while", "sys", "str", "if"}
    /\ met.lock[lock_of(met.sampler)] # "free"

\* The thread of play() is at a lock() of a free mutex.
PlayerReady ==
    /\ met.player \in {"start", "get", "stop"}
    /\ met.lock[lock_of(met.player)] = "free"

\* What play() does after start or get_metrics returned: the next frame's
\* get_metrics, or stop after the loop.
PlayerGoesOn(st) ==
    \/ st.reads < MaxReads /\ met' = [st EXCEPT !.player = "get"]
    \/ met' = [st EXCEPT !.player = "stop"]

\* metrics.rs:49, 112, 117: lock() in start, stop and get_metrics returns the
\* guard when the mutex is free; get_metrics that finds it locked waits.
MetPlayerLock ==
    /\ met.player \in {"start", "get", "stop"}
    /\ LET l == lock_of(met.player)
       IN  IF met.lock[l] = "free"
           THEN met' = [met EXCEPT !.lock[l] = "player",
                                   !.player = IF met.player = "start" THEN "start_held"
                                              ELSE IF met.player = "get" THEN "get_held"
                                              ELSE "stop_held"]
           ELSE /\ met.player = "get"
                /\ ~met.blocked
                /\ met' = [met EXCEPT !.blocked = TRUE]
    /\ UNCHANGED exceptMetrics

\* metrics.rs:49-51: running = true, the guard dropped, the sampler spawned.
MetStart ==
    /\ met.player = "start_held"
    /\ PlayerGoesOn([met EXCEPT !.running = TRUE, !.lock.running = "free",
                                !.sampler = "while"])
    /\ UNCHANGED exceptMetrics

\* metrics.rs:117: the string is cloned, the guard dropped, the clone returned.
MetGetMetrics ==
    /\ met.player = "get_held"
    /\ PlayerGoesOn([met EXCEPT !.got = met.metrics_str, !.got_after = met.samples,
                                !.reads = met.reads + 1,
                                !.lock.metrics_str = "free",
                                !.blocked = FALSE, !.waited = 0])
    /\ UNCHANGED exceptMetrics

\* metrics.rs:112: running = false, the guard dropped.
MetStop ==
    /\ met.player = "stop_held"
    /\ met' = [met EXCEPT !.running = FALSE, !.lock.running = "free",
                          !.player = "stopped"]
    /\ UNCHANGED exceptMetrics

\* metrics.rs:53, 54, 99, 103: a lock() of the sampler returns the guard.
MetSamplerLock ==
    /\ met.sampler \in {"while", "sys", "str", "if"}
    /\ LET l == lock_of(met.sampler)
       IN  /\ met.lock[l] = "free"
           /\ met' = [met EXCEPT !.lock[l] = "sampler",
                                 !.sampler = IF met.sampler = "while" THEN "while_held"
                                             ELSE IF met.sampler = "sys" THEN "refresh"
                                             ELSE IF met.sampler = "str" THEN "assign"
                                             ELSE "if_held"]
    /\ UNCHANGED exceptMetrics

\* metrics.rs:53, 107: the loop condition; the thread ends when running is false.
MetWhile ==
    /\ met.sampler = "while_held"
    /\ met' = [met EXCEPT !.lock.running = "free",
                          !.sampler = IF met.running THEN "sys" ELSE "finished"]
    /\ UNCHANGED exceptMetrics

\* metrics.rs:56-97: the refresh under the guard of system, and the text.
MetRefresh ==
    /\ met.sampler = "refresh"
    /\ met' = [met EXCEPT !.new_metrics = Sample(met.samples + 1), !.sampler = "str"]
    /\ UNCHANGED exceptMetrics

\* metrics.rs:99: *metrics_str = new_metrics.
MetAssign ==
    /\ met.sampler = "assign"
    /\ met' = [met EXCEPT !.metrics_str = met.new_metrics,
                          !.lock = after_assign(met.lock),
                          !.samples = met.samples + 1,
                          !.waited = IF met.blocked THEN met.waited + 1 ELSE met.waited,
                          !.sampler = "drop"]
    /\ UNCHANGED exceptMetrics

\* metrics.rs:101: drop(sys_guard).
MetDropSys ==
    /\ met.sampler = "drop"
    /\ met' = [met EXCEPT !.lock.system = "free", !.sampler = "if"]
    /\ UNCHANGED exceptMetrics

\* metrics.rs:103: the sampler sleeps when running is true.
MetIf ==
    /\ met.sampler = "if_held"
    /\ met' = [met EXCEPT !.lock.running = "free",
                          !.sampler = IF met.running THEN "sleep" ELSE "while"]
    /\ UNCHANGED exceptMetrics

\* metrics.rs:104: thread::sleep(METRICS_UPDATE_INTERVAL), 500 ms, ends.  It
\* outlasts a lock() of the thread of play() that finds its mutex free.  The
\* samples of one playback are at most MaxSamples.
MetWake ==
    /\ met.sampler = "sleep"
    /\ ~PlayerReady
    /\ met.samples < MaxSamples \/ ~met.running
    /\ met' = [met EXCEPT !.sampler = "while"]
    /\ UNCHANGED exceptMetrics

MetricsNext ==
    \/ MetPlayerLock
    \/ MetStart
    \/ MetGetMetrics
    \/ MetStop
    \/ MetSamplerLock
    \/ MetWhile
    \/ MetRefresh
    \/ MetAssign
    \/ MetDropSys
    \/ MetIf
    \/ MetWake

SpecMetrics == MetricsInit /\ [][MetricsNext]_vars

TermInit ==
    /\ tm = TmNew
    /\ CodecIdle
    /\ PipeIdle
    /\ AppIdle
    /\ RleIdle
    /\ PlayIdle
    /\ MetricsIdle
    /\ StatusIdle

\* A call returned an error.
TmFailed(st) == [TmCalled(st, "failed") EXCEPT !.ok = FALSE]

\* terminal.rs:33-63: raw mode, the alternate screen, Clear(All), MoveTo(0, 0).
TermSetup ==
    /\ tm.stage \notin {"off", "failed"}
    /\ \/ tm' = [TmCalled(tm, "setup") EXCEPT !.screen = BlankScreen]
       \/ tm' = TmFailed(tm)
    /\ UNCHANGED exceptTerm

\* terminal.rs:65-73: Clear(All), MoveTo(0, 0).  After setup() it completes
\* the Priming of play() (playback.rs:189-190).
TermClear ==
    /\ tm.stage \notin {"off", "failed"}
    /\ \/ tm' = [TmCalled(tm, IF tm.stage = "setup" THEN "primed" ELSE "cleared")
                    EXCEPT !.screen = BlankScreen]
       \/ tm' = TmFailed(tm)
    /\ UNCHANGED exceptTerm

\* terminal.rs:125-160: draw(content); any of its writes may fail.
TermDraw ==
    /\ tm.stage \in {"setup", "primed", "cleared", "drawn"}
    /\ \E content \in Contents :
          \E succeeded \in 0..(Len(draw_commands(tm.previous_frame, content)) + 1) :
             tm' = draw(tm, content, succeeded)
    /\ UNCHANGED exceptTerm

TermNext ==
    \/ TermSetup
    \/ TermClear
    \/ TermDraw

SpecTerm == TermInit /\ [][TermNext]_vars

\* The last draw printed line y, or cleared row y.
Printed(y) == \E k \in 1..Len(tm.done) : tm.done[k].op = "print" /\ tm.done[k].y = y

Cleared(y) == \E k \in 1..Len(tm.done) : tm.done[k].op = "clear" /\ tm.done[k].y = y

\* C31: Diff-based redraw. A draw(content) that returns Ok has written line y
\* of content if and only if y is beyond the previous frame's line count or
\* the line differs from the previous frame's line y; it has cleared exactly
\* the rows that the previous frame had and content lacks; each row is touched
\* at most once; afterwards the stored previous frame equals content.
C31_DiffRedraw ==
    tm.stage = "drawn" =>
        LET old == str_lines(tm.before)
            new == str_lines(tm.content)
        IN  /\ \A y \in 0..(MaxContent - 1) :
                  /\ Printed(y) <=> (y < Len(new) /\ (y >= Len(old) \/ old[y + 1] # new[y + 1]))
                  /\ Cleared(y) <=> (Len(new) <= y /\ y < Len(old))
            /\ \A k \in 1..Len(tm.done) :
                  tm.done[k].op = "print" => tm.done[k].line = new[tm.done[k].y + 1]
            /\ Len(tm.done) = Cardinality({y \in 0..(MaxContent - 1) : Printed(y) \/ Cleared(y)})
            /\ tm.previous_frame = tm.content

\* A frame of two lines was followed by one of its first line alone: the line
\* was not written again and the second row was cleared.
C31_Witness ==
    /\ tm.stage = "drawn"
    /\ Len(str_lines(tm.before)) = 2
    /\ Len(str_lines(tm.content)) = 1
    /\ ~Printed(0)
    /\ Cleared(1)
    /\ tm.previous_frame = tm.content

\* C32: The previous-frame buffer is reset on Priming. Every time setup() and
\* clear() have run, as at the start of play(), the buffer is empty, and the
\* first frame drawn after that is written in full, every line of it, also
\* when frames were drawn before.
C32_ResetOnPriming ==
    /\ tm.stage = "primed" => tm.previous_frame = <<>>
    /\ (tm.stage = "drawn" /\ tm.first)
          => \A y \in 0..(Len(str_lines(tm.content)) - 1) : Printed(y)

\* What holds of the code: setup() and clear() leave previous_frame as it is.
C32_Observed ==
    [][tm'.stage \in {"setup", "primed", "cleared"}
          => tm'.previous_frame = tm.previous_frame]_vars

\* C37: Screen matches content. After any sequence of setup(), clear() and
\* draw(c) calls that ends in a draw(c) returning Ok, the rows of the screen
\* are the lines of c and the rows below them are blank.
C37_ScreenMatchesContent ==
    tm.stage = "drawn" =>
        \A y \in 1..MaxContent :
            tm.screen[y] = IF y <= Len(str_lines(tm.content)) THEN str_lines(tm.content)[y]
                           ELSE <<>>

(***************************************************************************)
(* SpecStatus: the status line of one iteration of the frame loop, for     *)
(* every status text length and every terminal width of the bounds.        *)
(***************************************************************************)
StatusInit ==
    /\ \E n \in 0..MaxStatus :
          sb = [SbOff EXCEPT !.pc = "size", !.status_line = StatusText(n)]
    /\ CodecIdle
    /\ PipeIdle
    /\ AppIdle
    /\ RleIdle
    /\ PlayIdle
    /\ MetricsIdle
    /\ TermIdle

\* playback.rs:252: let (cols, _lines) = TerminalManager::get_size()?.
StatusSize ==
    /\ sb.pc = "size"
    /\ \/ \E cols \in 0..MaxCols : sb' = [sb EXCEPT !.pc = "compose", !.cols = cols]
       \/ sb' = [sb EXCEPT !.pc = "failed"]
    /\ UNCHANGED exceptStatus

\* playback.rs:254-271: the bracketed text, trimmed and centered.
StatusCompose ==
    /\ sb.pc = "compose"
    /\ sb' = [sb EXCEPT !.pc = "composed",
                        !.centered = centered_status(sb.status_line, sb.cols)]
    /\ UNCHANGED exceptStatus

StatusNext ==
    \/ StatusSize
    \/ StatusCompose

SpecStatus == StatusInit /\ [][StatusNext]_vars

\* C33: Status line width. For every terminal width cols >= 0 and every
\* status text length the composed line has exactly cols characters: the
\* bracketed text cut to at most cols characters, floor(p / 2) padding
\* characters before it and p - floor(p / 2) after it, p being cols minus the
\* length of the cut text.
C33_StatusWidth ==
    sb.pc = "composed" =>
        LET bracketed == <<91>> \o sb.status_line \o <<93>>
            kept == IF Len(bracketed) <= sb.cols THEN Len(bracketed) ELSE sb.cols
            p == sb.cols - kept
        IN  /\ Len(sb.centered) = sb.cols
            /\ sb.centered = [k \in 1..(p \div 2) |-> 61]
                             \o SubSeq(bracketed, 1, kept)
                             \o [k \in 1..(p - p \div 2) |-> 61]

\* A text that fits with an odd number of columns left over: one '=' more
\* after it than before it.
C33_Witness ==
    /\ sb.pc = "composed"
    /\ Len(sb.status_line) = 2
    /\ sb.cols = 7
    /\ sb.centered = <<61, 91, 49, 50, 93, 61, 61>>

====
